---- MODULE Spec2Model ----
(***************************************************************************)
(* Model of the professor-review question answering pipeline:              *)
(*   fetcher.py      store_professor_data / update_professor_fuzzy_search  *)
(*   chunker.py      the per-review step of the chunking batch             *)
(*   query_parser.py parse_query / resolve_professor_course                *)
(*   retriever.py    get_chunks                                            *)
(*   synthesizer.py  process_query / filter_chunks_by_aspect /             *)
(*                   generate_summary                                      *)
(*                                                                         *)
(* Python values are modelled as strings.  Three reserved strings stand    *)
(* for the Python values that are not str: None, a falsy non-null scalar   *)
(* (JSON false / 0) and a JSON array.                                      *)
(***************************************************************************)
EXTENDS Integers, Sequences, FiniteSets, TLC

None    == "<None>"
PyFalse == "<False>"
PyList  == "<list>"

\* Python truthiness of a field value: None, "", False and 0 are falsy.
Truthy(v) == v \notin {None, "", PyFalse}

-----------------------------------------------------------------------------
(* Bounds *)

MaxChunks == 2      \* rows review_chunks may hold
MaxTime   == 1      \* latest CURRENT_TIMESTAMP second a chunk row may carry
MaxLen    == 2      \* length of the chunk lists handed to the aspect filter alone

-----------------------------------------------------------------------------
(* String functions, tabulated over the strings the model uses *)

\* str.lower()
lower(s) ==
    CASE s = "Workload"      -> "workload"
      [] s = "WORKLOAD"      -> "workload"
      [] s = "Overall"       -> "overall"
      [] s = "GRADING_EXAMS" -> "grading_exams"
      [] s = "CSC 349"       -> "csc 349"
      [] s = "CSC 101"       -> "csc 101"
      [] s = "CSC 999"       -> "csc 999"
      [] OTHER               -> s

\* str.upper() and SQL UPPER() (they agree on ASCII)
upper(s) ==
    CASE s = "csc 349"  -> "CSC 349"
      [] s = " csc 349" -> " CSC 349"
      [] s = "csc 101 " -> "CSC 101 "
      [] s = "csc 999"  -> "CSC 999"
      [] s = "csc 101"  -> "CSC 101"
      [] OTHER          -> s

\* str.strip()
strip(s) ==
    CASE s = " csc 349" -> "csc 349"
      [] s = " CSC 349" -> "CSC 349"
      [] s = "csc 101 " -> "csc 101"
      [] s = "CSC 101 " -> "CSC 101"
      [] s = " She is organized. " -> "She is organized."
      [] s = " "        -> ""
      [] OTHER          -> s

-----------------------------------------------------------------------------
(* The entity store *)

ProfIds   == {"p1", "p2"}
ReviewIds == {"r1", "r2", "r3"}

\* The seven canonical aspect tags of the intent prompt.
CanonicalAspects ==
    {"teaching_style", "grading_exams", "workload", "accessibility",
     "course_structure", "personality", "overall"}

NoProfRow ==
    [present |-> FALSE, first_name |-> "", last_name |-> "", department |-> "",
     overall_rating |-> 0, material_clear |-> 0, student_difficulties |-> 0,
     num_evals |-> 0]

NoReviewRow ==
    [present |-> FALSE, professor_id |-> "", course_code |-> "", rating_text |-> ""]

\* What the upstream ratings API can return for a professor (prof_data).
\* reviews is the dict of course code -> review list, flattened in iteration
\* order.  Ratings are in tenths.
Upstream ==
    { [id |-> "p1", firstName |-> "Theresa", lastName |-> "Migler",
       department |-> "CSC", overallRating |-> 35, materialClear |-> 34,
       studentDifficulties |-> 36, numEvals |-> 1,
       reviews |-> << [course |-> " csc 349", id |-> "r1",
                       rating |-> "Tons of homework but a great class"] >>],
      [id |-> "p1", firstName |-> "Theresa", lastName |-> "Migler",
       department |-> "CSC", overallRating |-> 33, materialClear |-> 34,
       studentDifficulties |-> 36, numEvals |-> 2,
       reviews |-> << [course |-> "CSC 349", id |-> "r1",
                       rating |-> "Edited: tons of homework"],
                      [course |-> "csc 101 ", id |-> "r2",
                       rating |-> "Great professor"] >>],
      [id |-> "p2", firstName |-> "Theresa", lastName |-> "Migler Smith",
       department |-> "MATH", overallRating |-> 21, materialClear |-> 20,
       studentDifficulties |-> 22, numEvals |-> 1,
       reviews |-> << [course |-> "CSC 999", id |-> "r3",
                       rating |-> "Fair exams"] >>] }

VARIABLES
    professors,       \* table professors: id -> row
    reviews,          \* table reviews: id -> row
    review_chunks,    \* table review_chunks, in rowid (AUTOINCREMENT) order
    professors_fts,   \* virtual table professors_fts, in rowid order
    parsed,           \* process_query: what parse_query returned
    resolved,         \* process_query: what resolve_professor_course returned
    response,         \* process_query: the response object (before json.dumps)
    tokens_used,      \* process_query: second component of the returned pair
    calls,            \* process_query: external calls issued, in order
    raised,           \* process_query: an exception left the call
    llm_intent,       \* process_query: what the intent-extraction call gave
    llm_synth,        \* process_query: what the synthesis call gave, if made
    fetched,          \* process_query: what get_chunks returned
    prompt_chunks,    \* process_query: the chunks rendered into the prompt
    f_chunks,         \* filter_chunks_by_aspect alone: argument chunks
    f_target,         \* filter_chunks_by_aspect alone: argument target_aspect
    f_result,         \* filter_chunks_by_aspect alone: the returned value
    f_applied,        \* filter_chunks_by_aspect alone: the call was made
    chunks_call,      \* get_chunks alone: arguments and what two calls returned
    resolve_call,     \* resolve_professor_course alone: argument, two outcomes
    batch,            \* chunker batch run: the review list, counters, result
    txn,              \* chunker batch run: the open _store_chunks transaction
    req,              \* process_query stage by stage: client -> its call's locals
    wire,             \* process_query stage by stage: client -> its model call in flight
    fetch,            \* get_professor_details: the call under way, its retries, its result
    http              \* POST /api/query: the request handled last and its HTTP response

store == <<professors, reviews, review_chunks, professors_fts>>
query == <<parsed, resolved, response, tokens_used, calls, raised,
           llm_intent, llm_synth, fetched, prompt_chunks>>
alone == <<chunks_call, resolve_call>>
job   == <<batch, txn>>
staged == <<req, wire>>
edge  == <<fetch, http>>
unit  == <<f_chunks, f_target, f_result, f_applied, alone, job, staged, edge>>
vars  == <<professors, reviews, review_chunks, professors_fts,
           parsed, resolved, response, tokens_used, calls, raised,
           llm_intent, llm_synth, fetched, prompt_chunks,
           f_chunks, f_target, f_result, f_applied, chunks_call,
           resolve_call, batch, txn, req, wire, fetch, http>>

-----------------------------------------------------------------------------
(* Sequence helpers *)

RECURSIVE SeqFilterIdx(_, _)
\* the subsequence of s at the positions in keep, order preserved
SeqFilterIdx(s, keep) ==
    IF s = <<>> THEN <<>>
    ELSE LET n == Len(s)
             front == SeqFilterIdx(SubSeq(s, 1, n - 1), keep)
         IN  IF n \in keep THEN Append(front, s[n]) ELSE front

Range(s) == {s[i] : i \in DOMAIN s}

Take(s, n) == SubSeq(s, 1, IF n < Len(s) THEN n ELSE Len(s))

\* all orderings of the elements of the finite set S
Perms(S) ==
    {p \in [1..Cardinality(S) -> S] : \A i, j \in DOMAIN p : i # j => p[i] # p[j]}

-----------------------------------------------------------------------------
(* fetcher.py: ingestion *)

\* update_professor_fuzzy_search: delete the professor's entry, append the
\* new one.  The whole body is inside try/except: a failure is logged and
\* leaves the index as it was (ok = FALSE).
update_professor_fuzzy_search(fts, prof_data, ok) ==
    IF ~ok THEN fts
    ELSE LET kept == SeqFilterIdx(fts,
                        {i \in DOMAIN fts : fts[i].professor_id # prof_data.id})
         IN  Append(kept,
                    [name |-> strip(prof_data.firstName \o " " \o prof_data.lastName),
                     professor_id |-> prof_data.id])

\* the row INSERT OR REPLACE INTO professors writes
ProfessorRow(prof_data) ==
    [present |-> TRUE, first_name |-> prof_data.firstName,
     last_name |-> prof_data.lastName, department |-> prof_data.department,
     overall_rating |-> prof_data.overallRating,
     material_clear |-> prof_data.materialClear,
     student_difficulties |-> prof_data.studentDifficulties,
     num_evals |-> prof_data.numEvals]

RECURSIVE StoreReviews(_, _, _)
\* the review loop of store_professor_data: INSERT OR REPLACE each review
\* under the stripped, upper-cased course code
StoreReviews(revs, prof_id, items) ==
    IF items = <<>> THEN revs
    ELSE LET it == Head(items)
             row == [present |-> TRUE, professor_id |-> prof_id,
                     course_code |-> upper(strip(it.course)),
                     rating_text |-> it.rating]
         IN  StoreReviews([revs EXCEPT ![it.id] = row], prof_id, Tail(items))

\* store_professor_data(prof_data): INSERT OR REPLACE the professor row, the
\* reviews, commit, then refresh the name index.  (The courses table is
\* written too; nothing reads it.)  calls = <<>>: a request is one step of
\* the model, so the store changes between requests, not under the record
\* of one.
store_professor_data(prof_data, fts_ok) ==
    /\ calls = <<>>
    /\ professors' = [professors EXCEPT ![prof_data.id] = ProfessorRow(prof_data)]
    /\ reviews' = StoreReviews(reviews, prof_data.id, prof_data.reviews)
    /\ professors_fts' = update_professor_fuzzy_search(professors_fts, prof_data, fts_ok)
    /\ UNCHANGED <<review_chunks, query, unit>>

\* get_professor_details and rebuild_fuzzy_search transaction by
\* transaction: the HTTP request, the commit of the professor and review
\* rows, the commit of the index entry

max_retries == 3

\* no get_professor_details call has been made
NoFetch ==
    [pc |-> "idle", professor_id |-> None, retry_count |-> 0, attempts |-> 0,
     last |-> None, prof_data |-> [id |-> None], result |-> None, raised |-> FALSE]

\* a handler that retries once more than max_retries allows
retries_once_more(retry_count) == retry_count <= max_retries

\* if retry_count < self.max_retries
Retries(retry_count) == retry_count < max_retries

\* statements after store_professor_data's commit running although the
\* transaction failed
proceeds_always(stored_ok) == TRUE

\* conn.commit() went through: update_professor_fuzzy_search is called;
\* otherwise rollback, and the exception leaves store_professor_data
Proceeds(stored_ok) == stored_ok

\* get_professor_details(professor_id) is called (retry_count = 0)
get_professor_details(professor_id) ==
    /\ fetch.pc \in {"idle", "returned"}
    /\ fetch' = [NoFetch EXCEPT !.pc = "requesting", !.professor_id = professor_id]
    /\ UNCHANGED <<store, query, f_chunks, f_target, f_result, f_applied, alone, job, staged, http>>

\* one requests.get of the call.  kind "error": the request, its status or
\* its body raises RequestException; "empty": the reply carries no data;
\* "data": it carries prof_data, which store_professor_data writes and
\* commits (stored_ok) or fails to write and rolls back
http_get(kind, prof_data, stored_ok) ==
    /\ fetch.pc = "requesting"
    /\ prof_data.id = fetch.professor_id
    /\ LET me == [fetch EXCEPT !.attempts = @ + 1, !.last = kind]
       IN  CASE kind = "error" ->
                  /\ fetch' = IF Retries(fetch.retry_count)
                              THEN [me EXCEPT !.retry_count = @ + 1]
                              ELSE [me EXCEPT !.pc = "returned"]
                  /\ UNCHANGED <<professors, reviews>>
             [] kind = "empty" ->
                  /\ fetch' = [me EXCEPT !.pc = "returned"]
                  /\ UNCHANGED <<professors, reviews>>
             [] kind = "data" ->
                  /\ fetch' = IF Proceeds(stored_ok)
                              THEN [me EXCEPT !.pc = "stored", !.prof_data = prof_data]
                              ELSE [me EXCEPT !.pc = "returned", !.raised = TRUE]
                  /\ professors' = IF stored_ok
                                   THEN [professors EXCEPT ![prof_data.id] = ProfessorRow(prof_data)]
                                   ELSE professors
                  /\ reviews' = IF stored_ok
                                THEN StoreReviews(reviews, prof_data.id, prof_data.reviews)
                                ELSE reviews
    /\ UNCHANGED <<review_chunks, professors_fts, query,
                   f_chunks, f_target, f_result, f_applied, alone, job, staged, http>>

\* store_professor_data goes on after its commit: the index entry is
\* replaced in a transaction of its own (fts_ok), or that fails and is
\* logged; get_professor_details returns prof_data
index_professor(fts_ok) ==
    /\ fetch.pc = "stored"
    /\ professors_fts' = update_professor_fuzzy_search(professors_fts, fetch.prof_data, fts_ok)
    /\ fetch' = [fetch EXCEPT !.pc = "returned", !.result = fetch.prof_data.id]
    /\ UNCHANGED <<professors, reviews, review_chunks, query,
                   f_chunks, f_target, f_result, f_applied, alone, job, staged, http>>

\* the index rebuild_fuzzy_search writes: one entry per professors row, in
\* the order the SELECT lists them
RebuiltIndex(profs, order) ==
    [i \in DOMAIN order |->
        [name |-> strip(profs[order[i]].first_name \o " " \o profs[order[i]].last_name),
         professor_id |-> order[i]]]

\* rebuild_fuzzy_search(): DELETE, SELECT and the INSERTs in one
\* transaction; on an exception it is rolled back (ok = FALSE).  The
\* SELECT has no ORDER BY.
rebuild_fuzzy_search(ok) ==
    /\ professors_fts' \in
          IF ok THEN {RebuiltIndex(professors, order) :
                         order \in Perms({p \in ProfIds : professors[p].present})}
          ELSE {professors_fts}
    /\ UNCHANGED <<professors, reviews, review_chunks, query, unit>>

-----------------------------------------------------------------------------
(* chunker.py: the chunking batch *)

\* What _chunk_review can return as chunks_data: the decoded JSON array of
\* the extraction call, or [] when the call or the decoding failed.
ExtractionOutputs ==
    { <<>>,
      << [aspect |-> "workload", content |-> "Tons of homework", sentiment |-> "negative"] >>,
      << [aspect |-> "overall", content |-> "Great class", sentiment |-> "positive"] >>,
      << [aspect |-> "workload", content |-> "Tons of homework", sentiment |-> "negative"],
         [aspect |-> "overall", content |-> "Great class", sentiment |-> "positive"] >> }

\* the skip test left out: every listed review is extracted again
_reprocess_always(chunks, review_id) == FALSE

_already_processed(chunks, review_id) ==
    \E i \in DOMAIN chunks : chunks[i].review_id = review_id

LastTime(chunks) ==
    IF chunks = <<>> THEN 0 ELSE chunks[Len(chunks)].created_at

RECURSIVE _store_chunks(_, _, _, _)
\* _store_chunks: one INSERT per chunk in one transaction; every row gets
\* the next AUTOINCREMENT id and the transaction's CURRENT_TIMESTAMP
_store_chunks(chunks, review_id, chunks_data, now) ==
    IF chunks_data = <<>> THEN chunks
    ELSE LET c == Head(chunks_data)
             row == [id |-> Len(chunks) + 1, review_id |-> review_id,
                     aspect |-> c.aspect, content |-> c.content,
                     sentiment |-> c.sentiment, created_at |-> now]
         IN  _store_chunks(Append(chunks, row), review_id, Tail(chunks_data), now)

\* One iteration of the review loop of process_all_reviews /
\* process_professor_reviews for a review with a non-empty text: skip when
\* already processed, else extract and store.  now is the second the
\* transaction commits in, counted from the first transaction: the same
\* second as the last stored row or the next one.
process_review(review_id, chunks_data, now) ==
    /\ calls = <<>>
    /\ reviews[review_id].present
    /\ reviews[review_id].rating_text # ""
    /\ professors[reviews[review_id].professor_id].present
    /\ now = LastTime(review_chunks) \/ (review_chunks # <<>> /\ now = LastTime(review_chunks) + 1)
    /\ now <= MaxTime
    /\ Len(review_chunks) + Len(chunks_data) <= MaxChunks
    /\ review_chunks' =
         IF _already_processed(review_chunks, review_id) \/ chunks_data = <<>>
         THEN review_chunks
         ELSE _store_chunks(review_chunks, review_id, chunks_data, now)
    /\ UNCHANGED <<professors, reviews, professors_fts, query, unit>>

\* tokens of one successful extraction call: prompt tokens plus
\* usage.completion_tokens, a positive number
ExtractionTokens == 57

MaxRuns == 2

NoBatch ==
    [phase |-> "idle", run |-> 0, scope |-> None, listed |-> {}, todo |-> {},
     current |-> None, processed |-> 0, failed |-> 0, tokens |-> 0,
     extractions |-> 0, before |-> <<>>]

\* SELECT r.id, ... FROM reviews r JOIN professors p ON r.professor_id = p.id
\* WHERE [r.professor_id = ? AND] r.rating_text IS NOT NULL AND r.rating_text != ''
\* scope None: process_all_reviews; a professor id: process_professor_reviews
ListedReviews(scope) ==
    {r \in ReviewIds :
        /\ reviews[r].present
        /\ reviews[r].rating_text # ""
        /\ professors[reviews[r].professor_id].present
        /\ scope # None => reviews[r].professor_id = scope}

\* process_all_reviews / process_professor_reviews up to the loop: the
\* review list is read once; an empty list returns the zero result at once
start_batch(scope) ==
    /\ batch.phase # "running"
    /\ batch.run < MaxRuns
    /\ batch' = [phase |-> IF ListedReviews(scope) = {} THEN "done" ELSE "running",
                 run |-> batch.run + 1, scope |-> scope,
                 listed |-> ListedReviews(scope), todo |-> ListedReviews(scope),
                 current |-> None, processed |-> 0, failed |-> 0, tokens |-> 0,
                 extractions |-> 0, before |-> review_chunks]
    /\ UNCHANGED <<store, query, f_chunks, f_target, f_result, f_applied, alone, staged, txn, edge>>

\* one iteration of the loop, for a listed review not yet visited (the
\* SELECT has no ORDER BY).  chunks_data is what _chunk_review returns when
\* it is called, stored_ok whether _store_chunks returns True.
batch_step(review_id, chunks_data, stored_ok, now) ==
    /\ batch.phase = "running"
    /\ review_id \in batch.todo
    /\ IF _already_processed(review_chunks, review_id)
       THEN /\ review_chunks' = review_chunks
            /\ batch' = [batch EXCEPT !.todo = @ \ {review_id}, !.current = review_id,
                                      !.processed = @ + 1]
       ELSE IF chunks_data # <<>> /\ stored_ok
       THEN /\ now = LastTime(review_chunks)
               \/ (review_chunks # <<>> /\ now = LastTime(review_chunks) + 1)
            /\ now <= MaxTime
            /\ Len(review_chunks) + Len(chunks_data) <= MaxChunks
            /\ review_chunks' = _store_chunks(review_chunks, review_id, chunks_data, now)
            /\ batch' = [batch EXCEPT !.todo = @ \ {review_id}, !.current = review_id,
                                      !.processed = @ + 1,
                                      !.tokens = @ + ExtractionTokens,
                                      !.extractions = @ + 1]
       ELSE /\ review_chunks' = review_chunks
            /\ batch' = [batch EXCEPT !.todo = @ \ {review_id}, !.current = review_id,
                                      !.failed = @ + 1,
                                      !.extractions = @ + 1]
    /\ UNCHANGED <<professors, reviews, professors_fts, query,
                   f_chunks, f_target, f_result, f_applied, alone, staged, txn, edge>>

\* no _store_chunks call under way.  failed, dropped and origin are kept for
\* the record: the reviews whose last visit was counted as failed, the
\* first review a run was stopped in while its rows were being inserted,
\* and for each review the extraction outputs that were committed for it
NoTxn ==
    [pc |-> "idle", review_id |-> None, chunks_data |-> <<>>, pending |-> <<>>,
     failed |-> {}, dropped |-> None, origin |-> [r \in ReviewIds |-> <<>>]]

\* chunks_data as _chunk_review can return it when the reply is a JSON array
\* whose second object lacks the sentiment key
IncompleteOutputs ==
    { << [aspect |-> "workload", content |-> "Tons of homework", sentiment |-> "negative"],
         [aspect |-> "overall", content |-> "Great class"] >> }

\* chunk['aspect'], chunk['content'], chunk['sentiment'] can be read
HasKeys(chunk) == {"aspect", "content", "sentiment"} \subseteq DOMAIN chunk

\* a with-block that leaves the rows inserted so far in the table
KeepsInserted(chunks, review_id, pending) ==
    _store_chunks(chunks, review_id, pending, LastTime(chunks))

\* the table after "with sqlite3.connect(...) as conn:" is left by an
\* exception, or after the process died inside it: the transaction is
\* rolled back, none of its rows is there
RolledBack(chunks, review_id, pending) == chunks

\* the loop body up to the call of _store_chunks: skip a review that has
\* chunks, count it failed when the extraction gave nothing, else open the
\* transaction
begin_iteration(review_id, chunks_data) ==
    /\ batch.phase = "running"
    /\ txn.pc = "idle"
    /\ review_id \in batch.todo
    /\ IF _already_processed(review_chunks, review_id)
       THEN /\ batch' = [batch EXCEPT !.todo = @ \ {review_id}, !.current = review_id,
                                      !.processed = @ + 1]
            /\ txn' = [txn EXCEPT !.failed = @ \ {review_id}]
       ELSE IF chunks_data = <<>>
       THEN /\ batch' = [batch EXCEPT !.todo = @ \ {review_id}, !.current = review_id,
                                      !.failed = @ + 1, !.extractions = @ + 1]
            /\ txn' = [txn EXCEPT !.failed = @ \cup {review_id}]
       ELSE /\ Len(review_chunks) + Len(chunks_data) <= MaxChunks
            /\ batch' = [batch EXCEPT !.current = review_id, !.extractions = @ + 1]
            /\ txn' = [txn EXCEPT !.pc = "storing", !.review_id = review_id,
                                  !.chunks_data = chunks_data, !.pending = <<>>]
    /\ UNCHANGED <<store, query, f_chunks, f_target, f_result, f_applied, alone, staged, edge>>

\* one turn of "for chunk in chunks_data: conn.execute(INSERT ...)": the
\* row joins the transaction, or reading the chunk or the INSERT raises
\* (db_ok FALSE), the with-block rolls back, _store_chunks returns False and
\* the review is counted as failed
insert_chunk(db_ok) ==
    /\ batch.phase = "running"
    /\ txn.pc = "storing"
    /\ Len(txn.pending) < Len(txn.chunks_data)
    /\ LET chunk == txn.chunks_data[Len(txn.pending) + 1]
       IN  IF HasKeys(chunk) /\ db_ok
           THEN /\ txn' = [txn EXCEPT !.pending = Append(@, chunk)]
                /\ UNCHANGED <<batch, review_chunks>>
           ELSE /\ review_chunks' = RolledBack(review_chunks, txn.review_id, txn.pending)
                /\ txn' = [txn EXCEPT !.pc = "idle", !.pending = <<>>,
                                      !.failed = @ \cup {txn.review_id}]
                /\ batch' = [batch EXCEPT !.todo = @ \ {txn.review_id}, !.failed = @ + 1]
    /\ UNCHANGED <<professors, reviews, professors_fts, query,
                   f_chunks, f_target, f_result, f_applied, alone, staged, edge>>

\* the loop of _store_chunks is over and the with-block commits: the rows
\* are in the table, _store_chunks returns True, the review is counted as
\* processed with the tokens of its extraction
commit_chunks(now) ==
    /\ batch.phase = "running"
    /\ txn.pc = "storing"
    /\ Len(txn.pending) = Len(txn.chunks_data)
    /\ now = LastTime(review_chunks) \/ (review_chunks # <<>> /\ now = LastTime(review_chunks) + 1)
    /\ now <= MaxTime
    /\ review_chunks' = _store_chunks(review_chunks, txn.review_id, txn.pending, now)
    /\ txn' = [txn EXCEPT !.pc = "idle", !.review_id = None, !.chunks_data = <<>>,
                          !.pending = <<>>, !.failed = @ \ {txn.review_id},
                          !.origin[txn.review_id] = Append(@, txn.chunks_data)]
    /\ batch' = [batch EXCEPT !.todo = @ \ {txn.review_id}, !.processed = @ + 1,
                              !.tokens = @ + ExtractionTokens]
    /\ UNCHANGED <<professors, reviews, professors_fts, query,
                   f_chunks, f_target, f_result, f_applied, alone, staged, edge>>

\* the process running the batch is stopped, wherever it is: between two
\* reviews, or inside _store_chunks with rows inserted and not committed
interrupt ==
    /\ batch.phase = "running"
    /\ batch' = [batch EXCEPT !.phase = "interrupted"]
    /\ review_chunks' = RolledBack(review_chunks, txn.review_id, txn.pending)
    /\ txn' = [txn EXCEPT !.pc = "idle", !.review_id = None, !.chunks_data = <<>>,
                          !.pending = <<>>,
                          !.dropped = IF txn.pending # <<>> /\ @ = None
                                      THEN txn.review_id ELSE @]
    /\ UNCHANGED <<professors, reviews, professors_fts, query,
                   f_chunks, f_target, f_result, f_applied, alone, staged, edge>>

\* the loop is over: the result dict is returned
return_batch ==
    /\ batch.phase = "running"
    /\ batch.todo = {}
    /\ batch' = [batch EXCEPT !.phase = "done"]
    /\ UNCHANGED <<store, query, f_chunks, f_target, f_result, f_applied, alone, staged, txn, edge>>

-----------------------------------------------------------------------------
(* query_parser.py: parse_query *)

\* What the intent-extraction call can give.  kind "call_error": create()
\* raised, or the message carries no content.  Otherwise the content is a
\* body, bare or wrapped in a code fence (fence "json": ```json ... ```,
\* fence "bare": ``` ... ```).  shape is what json.loads makes of the body:
\* "malformed" (not JSON), "object" (a dict with the three keys),
\* "empty_array" ([]), "scalar" (a number, true, null).
IntentObject(fence, professor, course, aspect) ==
    [kind |-> "text", fence |-> fence, shape |-> "object",
     professor |-> professor, course |-> course, aspect |-> aspect]

IntentOther(kind, shape) ==
    [kind |-> kind, fence |-> "none", shape |-> shape,
     professor |-> None, course |-> None, aspect |-> None]

IntentProfessors ==
    {None, "null", "Theresa Migler", "theresa", "Nobody", "O'Brien", PyList}
IntentCourses == {None, "csc 349", "CSC 999"}
IntentAspects == {None, "workload", "grading_exams", "humor", PyFalse}

\* every course and aspect guess with the names the index can hold, two of
\* them with the others
IntentResponses ==
    {IntentObject("none", p, c, a) :
        p \in {"Theresa Migler", "theresa"}, c \in IntentCourses, a \in IntentAspects}
    \cup {IntentObject("none", p, None, None) : p \in IntentProfessors}
    \cup {IntentObject("none", p, "csc 349", "workload") : p \in IntentProfessors}
    \cup {IntentObject(f, "Theresa Migler", None, "workload") : f \in {"json", "bare"}}
    \cup {IntentOther("call_error", "malformed"), IntentOther("text", "malformed"),
          IntentOther("text", "empty_array"), IntentOther("text", "scalar")}

\* the dict (or other value) parse_query returns; isdict = FALSE stands for
\* a JSON value that is not an object (it has no .get)
AllNull == [isdict |-> TRUE, professor |-> None, course |-> None, aspect |-> None]
NonDict == [isdict |-> FALSE, professor |-> None, course |-> None, aspect |-> None]

\* result[key] == "null" or result[key] == ""  ->  None
NormalizeField(v) == IF v = "null" \/ v = "" THEN None ELSE v

\* content after the fence handling: only a leading ```json is stripped, so
\* a bare fence stays in the text and json.loads rejects it
Decodes(resp) ==
    /\ resp.kind = "text"
    /\ resp.fence \in {"none", "json"}
    /\ resp.shape # "malformed"

\* parse_query with the handler returning the decoded-so-far value instead
\* of the all-null triple
parse_query_no_fallback(resp) ==
    IF ~Decodes(resp) THEN NonDict
    ELSE CASE resp.shape = "object" ->
                [isdict |-> TRUE,
                 professor |-> NormalizeField(resp.professor),
                 course |-> NormalizeField(resp.course),
                 aspect |-> NormalizeField(resp.aspect)]
           [] resp.shape = "empty_array" -> NonDict
           [] OTHER -> AllNull

parse_query(resp) ==
    IF ~Decodes(resp) THEN AllNull                 \* except Exception
    ELSE CASE resp.shape = "object" ->
                [isdict |-> TRUE,
                 professor |-> NormalizeField(resp.professor),
                 course |-> NormalizeField(resp.course),
                 aspect |-> NormalizeField(resp.aspect)]
           [] resp.shape = "empty_array" -> NonDict   \* the key loop is empty
           [] OTHER -> AllNull                        \* iterating a scalar raises

-----------------------------------------------------------------------------
(* query_parser.py: resolve_professor_course *)

\* FTS5 (unicode61) tokens of a text: case-folded words
Tokens(text) ==
    CASE text = "Theresa Migler" -> {"theresa", "migler"}
      [] text = "Theresa Migler Smith" -> {"theresa", "migler", "smith"}
      [] text = "theresa"        -> {"theresa"}
      [] text = "Nobody"         -> {"nobody"}
      [] OTHER                   -> {text}

\* a MATCH argument the FTS5 query parser rejects (sqlite3.OperationalError)
FtsSyntaxError(q) == q \in {"O'Brien"}

\* a value sqlite3 cannot bind as a parameter (sqlite3.ProgrammingError)
Unbindable(v) == v = PyList

\* a row matches when every query token occurs in one of its two columns
FtsMatches(row, q) == Tokens(q) \subseteq (Tokens(row.name) \cup Tokens(row.professor_id))

\* the search with the MATCH condition left out: the first row, whatever it is
FtsFirstRow(fts, q) == IF fts = <<>> THEN 0 ELSE 1

\* SELECT professor_id, name FROM professors_fts WHERE professors_fts MATCH ?
\* LIMIT 1: the first matching row in rowid order, 0 when none
FtsFirstMatch(fts, q) ==
    LET hits == {i \in DOMAIN fts : FtsMatches(fts[i], q)}
    IN  IF hits = {} THEN 0 ELSE CHOOSE i \in hits : \A j \in hits : i <= j

\* the course lookup without the professor_id condition
CourseTaughtByAnyone(revs, prof_id, query_course) ==
    \E r \in ReviewIds :
        /\ revs[r].present
        /\ upper(revs[r].course_code) = upper(query_course)

\* SELECT DISTINCT course_code FROM reviews
\* WHERE professor_id = ? AND UPPER(course_code) = UPPER(?)
CourseTaught(revs, prof_id, query_course) ==
    \E r \in ReviewIds :
        /\ revs[r].present
        /\ revs[r].professor_id = prof_id
        /\ upper(revs[r].course_code) = upper(query_course)

NoResolution ==
    [professor_id |-> None, professor_name |-> None, course_code |-> None, aspect |-> None]

ResolveOutcome(raised_, result, calls_) ==
    [raised |-> raised_, result |-> result, calls |-> calls_]

\* resolve_professor_course without the early return for a missing name:
\* the index is searched with whatever the name field holds
resolve_without_short_circuit(fts, revs, parsed_query) ==
    IF ~parsed_query.isdict
    THEN ResolveOutcome(TRUE, NoResolution, <<>>)
    ELSE LET m == FtsFirstMatch(fts, parsed_query.professor)
         IN  IF m = 0 THEN ResolveOutcome(FALSE, NoResolution, <<"fts_search">>)
             ELSE ResolveOutcome(FALSE,
                      [professor_id |-> fts[m].professor_id,
                       professor_name |-> fts[m].name,
                       course_code |-> None,
                       aspect |-> parsed_query.aspect],
                      <<"fts_search">>)

\* resolve_professor_course(parsed_query) against the store: the returned
\* dict, whether an exception left the call, and the storage reads issued
resolve_professor_course(fts, revs, parsed_query) ==
    IF ~parsed_query.isdict
    THEN ResolveOutcome(TRUE, NoResolution, <<>>)          \* no attribute 'get'
    ELSE LET query_prof   == parsed_query.professor
             query_course == parsed_query.course
         IN
         IF ~Truthy(query_prof) THEN ResolveOutcome(FALSE, NoResolution, <<>>)
         ELSE IF Unbindable(query_prof) \/ FtsSyntaxError(query_prof)
         THEN ResolveOutcome(TRUE, NoResolution, <<"fts_search">>)
         ELSE LET m == FtsFirstMatch(fts, query_prof)
              IN
              IF m = 0 THEN ResolveOutcome(FALSE, NoResolution, <<"fts_search">>)
              ELSE LET found == [professor_id |-> fts[m].professor_id,
                                 professor_name |-> fts[m].name,
                                 course_code |-> None,
                                 aspect |-> parsed_query.aspect]
                   IN
                   IF ~Truthy(query_course)
                   THEN ResolveOutcome(FALSE, found, <<"fts_search">>)
                   ELSE IF Unbindable(query_course)
                   THEN ResolveOutcome(TRUE, NoResolution, <<"fts_search", "course_lookup">>)
                   ELSE ResolveOutcome(FALSE,
                            IF CourseTaught(revs, found.professor_id, query_course)
                            THEN [found EXCEPT !.course_code = upper(query_course)]
                            ELSE found,
                            <<"fts_search", "course_lookup">>)

-----------------------------------------------------------------------------
(* retriever.py: get_chunks *)

\* the rows of review_chunks JOIN reviews that pass the WHERE clause
Qualifying(chunks, revs, professor_id, aspect, course_code) ==
    {i \in DOMAIN chunks :
        /\ revs[chunks[i].review_id].present
        /\ revs[chunks[i].review_id].professor_id = professor_id
        /\ (Truthy(aspect) => chunks[i].aspect = aspect)
        /\ (Truthy(course_code) =>
               upper(revs[chunks[i].review_id].course_code) = upper(course_code))}

ChunkDict(chunks, revs, i) ==
    [aspect |-> chunks[i].aspect, content |-> chunks[i].content,
     sentiment |-> chunks[i].sentiment,
     course_code |-> revs[chunks[i].review_id].course_code]

\* the query with ORDER BY rc.created_at ASC
get_chunks_oldest_first(chunks, revs, professor_id, aspect, course_code, limit) ==
    LET rows == Qualifying(chunks, revs, professor_id, aspect, course_code)
        orders == {p \in Perms(rows) :
                     \A i, j \in DOMAIN p :
                        i < j => chunks[p[i]].created_at <= chunks[p[j]].created_at}
    IN  {Take([k \in DOMAIN p |-> ChunkDict(chunks, revs, p[k])], limit) : p \in orders}

\* get_chunks(professor_id, aspect, course_code, limit): every sequence the
\* query may return.  ORDER BY rc.created_at DESC fixes the order only
\* between rows of different timestamps; LIMIT cuts after ordering.
get_chunks(chunks, revs, professor_id, aspect, course_code, limit) ==
    LET rows == Qualifying(chunks, revs, professor_id, aspect, course_code)
        orders == {p \in Perms(rows) :
                     \A i, j \in DOMAIN p :
                        i < j => chunks[p[i]].created_at >= chunks[p[j]].created_at}
    IN  {Take([k \in DOMAIN p |-> ChunkDict(chunks, revs, p[k])], limit) : p \in orders}

-----------------------------------------------------------------------------
(* synthesizer.py *)

RetrievalLimit == 10      \* process_query: get_chunks(..., limit=10)

NoInfo ==
    [name |-> "", department |-> "", overall_rating |-> 0, material_clear |-> 0,
     student_difficulties |-> 0, num_evals |-> 0]

NoStats ==
    [overall_rating |-> 0, material_clear |-> 0, student_difficulties |-> 0,
     num_evals |-> 0]

\* get_numerical_professor_info: the dict built from the professors row
get_numerical_professor_info(profs, professor_id) ==
    [name |-> profs[professor_id].first_name \o " " \o profs[professor_id].last_name,
     department |-> profs[professor_id].department,
     overall_rating |-> profs[professor_id].overall_rating,
     material_clear |-> profs[professor_id].material_clear,
     student_difficulties |-> profs[professor_id].student_difficulties,
     num_evals |-> profs[professor_id].num_evals]

\* whether SELECT ... FROM professors WHERE id = ? finds a row
HasProfessorRow(profs, professor_id) ==
    professor_id \in ProfIds /\ profs[professor_id].present

StatsOf(prof_info) ==
    [overall_rating |-> prof_info.overall_rating,
     material_clear |-> prof_info.material_clear,
     student_difficulties |-> prof_info.student_difficulties,
     num_evals |-> prof_info.num_evals]

\* Response objects: keys is the set of keys the dict has; the other
\* fields hold the values of those keys (and a filler for absent keys).
NoResponse ==
    [keys |-> {}, error |-> "", professor |-> NoInfo, stats |-> NoStats,
     excerpts |-> <<>>, analysis |-> ""]

ErrorResponse(message) ==
    [keys |-> {"error"}, error |-> message, professor |-> NoInfo, stats |-> NoStats,
     excerpts |-> <<>>, analysis |-> ""]

DataResponse(prof_info, excerpts, analysis) ==
    [keys |-> {"professor", "stats", "excerpts", "analysis"}, error |-> "",
     professor |-> prof_info, stats |-> StatsOf(prof_info),
     excerpts |-> excerpts, analysis |-> analysis]

NotFoundMessage    == "Professor not found in database"
NoInfoMessage      == "Professor information not available"
NoExcerptsMarker   == "No Review Excerpts found for this query."
NoSpecificMarker   == "No specific review excerpts available for this query."
SynthesisErrorText == "Error generating answer"

\* the value filter_chunks_by_aspect returns: a list, or None
SomeList(list) == [none |-> FALSE, list |-> list]
NoneList       == [none |-> TRUE, list |-> <<>>]

MatchingChunks(chunks, tag) ==
    SeqFilterIdx(chunks, {i \in DOMAIN chunks : lower(chunks[i].aspect) = tag})

\* the filter without the 'overall' step of the ladder
filter_without_overall(chunks, target_aspect) ==
    IF ~Truthy(target_aspect) THEN SomeList(chunks)
    ELSE LET matching_chunks == MatchingChunks(chunks, lower(target_aspect))
         IN  IF matching_chunks # <<>> THEN SomeList(matching_chunks) ELSE NoneList

filter_chunks_by_aspect(chunks, target_aspect) ==
    IF ~Truthy(target_aspect) THEN SomeList(chunks)
    ELSE LET matching_chunks == MatchingChunks(chunks, lower(target_aspect))
             overall_chunks  == MatchingChunks(chunks, "overall")
         IN  IF matching_chunks # <<>> THEN SomeList(matching_chunks)
             ELSE IF overall_chunks # <<>> THEN SomeList(overall_chunks)
             ELSE NoneList

\* What the synthesis call can give.  "ok": a completion with content and
\* usage.  The others fail inside the try block: create() raising
\* ("call_error"), the 30 s timeout firing ("timeout"), a completion with no
\* choices, with content None, or with usage None.
SynthReply(kind, content, total_tokens) ==
    [kind |-> kind, content |-> content, total_tokens |-> total_tokens]

SynthNotCalled == SynthReply("not_called", "", 0)

\* a completion whose content is None still reports its usage
SynthResponses ==
    {SynthReply("ok", " She is organized. ", 321), SynthReply("content_none", "", 321)}
    \cup {SynthReply(k, "", 0) :
            k \in {"call_error", "timeout", "no_choices", "usage_none"}}

\* an excerpts list that keeps the first chunk only
excerpts_first_only(chunks) ==
    [i \in DOMAIN Take(chunks, 1) |-> [aspect |-> chunks[i].aspect, content |-> chunks[i].content]]

Excerpts(chunks) ==
    [i \in DOMAIN chunks |-> [aspect |-> chunks[i].aspect, content |-> chunks[i].content]]

SummaryOutcome(response_data, tokens, calls_, rendered) ==
    [response |-> response_data, tokens |-> tokens, calls |-> calls_, prompt |-> rendered]

\* generate_summary reading the reply outside the try block's protection:
\* only a raising create() is turned into the error response
generate_summary_unguarded(prof_info, chunks, resolved_, reply) ==
    LET filtered_chunks == filter_chunks_by_aspect(chunks, resolved_.aspect)
    IN  IF filtered_chunks.none \/ filtered_chunks.list = <<>>
        THEN SummaryOutcome(DataResponse(prof_info, <<>>, NoSpecificMarker), 0, <<>>, <<>>)
        ELSE IF reply.kind = "call_error"
        THEN SummaryOutcome(ErrorResponse(SynthesisErrorText), 0,
                            <<"llm_synthesis">>, filtered_chunks.list)
        ELSE SummaryOutcome(
                 DataResponse(prof_info, Excerpts(filtered_chunks.list), strip(reply.content)),
                 reply.total_tokens, <<"llm_synthesis">>, filtered_chunks.list)

\* generate_summary reporting the usage of the reply whatever became of it:
\* the error response goes out with the tokens the call consumed
generate_summary_billing_failures(prof_info, chunks, resolved_, reply) ==
    LET filtered_chunks == filter_chunks_by_aspect(chunks, resolved_.aspect)
    IN  IF filtered_chunks.none \/ filtered_chunks.list = <<>>
        THEN SummaryOutcome(DataResponse(prof_info, <<>>, NoSpecificMarker), 0, <<>>, <<>>)
        ELSE IF reply.kind = "ok"
        THEN SummaryOutcome(
                 DataResponse(prof_info, Excerpts(filtered_chunks.list), strip(reply.content)),
                 reply.total_tokens, <<"llm_synthesis">>, filtered_chunks.list)
        ELSE SummaryOutcome(ErrorResponse(SynthesisErrorText), reply.total_tokens,
                            <<"llm_synthesis">>, filtered_chunks.list)

\* generate_summary(prof_info, chunks, resolved) with the reply of the
\* synthesis call, should it be made
generate_summary(prof_info, chunks, resolved_, reply) ==
    LET filtered_chunks == filter_chunks_by_aspect(chunks, resolved_.aspect)
    IN  IF filtered_chunks.none \/ filtered_chunks.list = <<>>
        THEN SummaryOutcome(DataResponse(prof_info, <<>>, NoSpecificMarker), 0, <<>>, <<>>)
        ELSE IF reply.kind = "ok"
        THEN SummaryOutcome(
                 DataResponse(prof_info, Excerpts(filtered_chunks.list), strip(reply.content)),
                 reply.total_tokens, <<"llm_synthesis">>, filtered_chunks.list)
        ELSE SummaryOutcome(ErrorResponse(SynthesisErrorText), 0,
                            <<"llm_synthesis">>, filtered_chunks.list)


\* the no-chunks branch answering with the marker alone, as an error
NoChunksResponseBare(prof_info) == ErrorResponse(NoExcerptsMarker)

\* process_query, "if not chunks": stats block, no excerpts, the marker
NoChunksResponse(prof_info) == DataResponse(prof_info, <<>>, NoExcerptsMarker)

\* what a process_query call leaves behind: the resolved query, the response
\* and tokens it returns (or raised), its external calls in order, the reply
\* of the synthesis call, the chunks fetched and those put in the prompt
Outcome(resolved_, response_, tokens_, calls_, raised_, reply_, fetched_, rendered) ==
    [resolved |-> resolved_, response |-> response_, tokens |-> tokens_,
     calls |-> calls_, raised |-> raised_, reply |-> reply_,
     fetched |-> fetched_, rendered |-> rendered]

\* process_query(user_query): parse -> resolve -> stats -> chunks -> summary,
\* as the set of outcomes a call can have against the given tables.  intent
\* is what the intent-extraction call gives in this request; the reply of
\* the synthesis call is drawn where the call is made.
process_query_outcomes(fts, profs, revs, chunks_table, intent) ==
    LET p == parse_query(intent)
        r == resolve_professor_course(fts, revs, p)
        c1 == <<"llm_intent">> \o r.calls
        id == r.result.professor_id
    IN
    IF r.raised
    THEN {Outcome(NoResolution, NoResponse, 0, c1, TRUE, SynthNotCalled, <<>>, <<>>)}
    ELSE IF id = None
    THEN {Outcome(r.result, ErrorResponse(NotFoundMessage), 0, c1, FALSE,
                  SynthNotCalled, <<>>, <<>>)}
    ELSE IF ~HasProfessorRow(profs, id)
    THEN {Outcome(r.result, ErrorResponse(NoInfoMessage), 0,
                  c1 \o <<"stats_lookup">>, FALSE, SynthNotCalled, <<>>, <<>>)}
    ELSE LET prof_info == get_numerical_professor_info(profs, id)
             c2 == c1 \o <<"stats_lookup", "get_chunks">>
         IN
         IF Unbindable(r.result.aspect)
         THEN {Outcome(r.result, NoResponse, 0, c2, TRUE, SynthNotCalled, <<>>, <<>>)}
         ELSE UNION {
                IF chunks = <<>>
                THEN {Outcome(r.result, NoChunksResponse(prof_info),
                              0, c2, FALSE, SynthNotCalled, chunks, <<>>)}
                ELSE IF generate_summary(prof_info, chunks, r.result, SynthNotCalled).calls = <<>>
                THEN LET g == generate_summary(prof_info, chunks, r.result, SynthNotCalled)
                     IN  {Outcome(r.result, g.response, g.tokens, c2, FALSE,
                                  SynthNotCalled, chunks, g.prompt)}
                ELSE {LET g == generate_summary(prof_info, chunks, r.result, reply)
                      IN  Outcome(r.result, g.response, g.tokens, c2 \o g.calls, FALSE,
                                  reply, chunks, g.prompt) : reply \in SynthResponses}
                : chunks \in get_chunks(chunks_table, revs, id, r.result.aspect,
                                        r.result.course_code, RetrievalLimit)}

\* process_query leaves with this outcome
Returns(resolved_, response_, tokens_, calls_, raised_, reply_, fetched_, rendered) ==
    /\ resolved' = resolved_
    /\ response' = response_
    /\ tokens_used' = tokens_
    /\ calls' = calls_
    /\ raised' = raised_
    /\ llm_synth' = reply_
    /\ fetched' = fetched_
    /\ prompt_chunks' = rendered

\* one process_query call, run to its end against the store as it is; the
\* query path only reads the store
process_query(intent) ==
    /\ calls = <<>>
    /\ llm_intent' = intent
    /\ parsed' = parse_query(intent)
    /\ UNCHANGED <<store, unit>>
    /\ \E o \in process_query_outcomes(professors_fts, professors, reviews,
                                       review_chunks, intent) :
          Returns(o.resolved, o.response, o.tokens, o.calls, o.raised, o.reply,
                  o.fetched, o.rendered)

-----------------------------------------------------------------------------
(* The system: ingestion, the chunking batch and queries against one store *)

NoIntent == IntentOther("not_called", "malformed")

\* the store right after setup_database, and no request running
EmptyStore ==
    /\ professors = [p \in ProfIds |-> NoProfRow]
    /\ reviews = [r \in ReviewIds |-> NoReviewRow]
    /\ review_chunks = <<>>
    /\ professors_fts = <<>>

NoRequest ==
    /\ parsed = AllNull
    /\ resolved = NoResolution
    /\ response = NoResponse
    /\ tokens_used = 0
    /\ calls = <<>>
    /\ raised = FALSE
    /\ llm_intent = NoIntent
    /\ llm_synth = SynthNotCalled
    /\ fetched = <<>>
    /\ prompt_chunks = <<>>

\* get_chunks has not been called on its own
NoChunksCall ==
    [n |-> 0, professor_id |-> None, aspect |-> None, course_code |-> None,
     limit |-> 0, first |-> <<>>, second |-> <<>>]

\* resolve_professor_course has not been called on its own
NoResolveCall ==
    [n |-> 0, given |-> AllNull, parsed_query |-> AllNull,
     first |-> ResolveOutcome(FALSE, NoResolution, <<>>),
     second |-> ResolveOutcome(FALSE, NoResolution, <<>>)]

NoCallAlone == chunks_call = NoChunksCall /\ resolve_call = NoResolveCall

NoJob == batch = NoBatch /\ txn = NoTxn

\* the clients whose requests overlap
Clients == {"c1", "c2"}

\* a client with no process_query call under way
Idle ==
    [pc |-> "idle", intent |-> NoIntent, parsed |-> AllNull, resolved |-> NoResolution,
     prof_info |-> NoInfo, chunks |-> <<>>, filtered |-> <<>>,
     response |-> NoResponse, tokens |-> 0, raised |-> FALSE,
     stages |-> <<>>, calls |-> <<>>]

\* no chat.completions.create call is in flight
NoCall == [name |-> None, kwargs |-> {}, timeout |-> 0]

NoStagedRequest ==
    /\ req = [c \in Clients |-> Idle]
    /\ wire = [c \in Clients |-> NoCall]

\* no request has reached the endpoint
NoHttp ==
    [query |-> None, length |-> 0, status |-> 0, detail |-> <<>>, called |-> FALSE,
     response |-> NoResponse, tokens_used |-> 0]

NoUnitCall ==
    /\ f_chunks = <<>>
    /\ f_target = None
    /\ f_result = NoneList
    /\ f_applied = FALSE
    /\ NoCallAlone
    /\ NoJob
    /\ NoStagedRequest
    /\ fetch = NoFetch
    /\ http = NoHttp

Init == EmptyStore /\ NoRequest /\ NoUnitCall

Ingest == \E prof_data \in Upstream, fts_ok \in BOOLEAN : store_professor_data(prof_data, fts_ok)

Chunk ==
    \E review_id \in ReviewIds, chunks_data \in ExtractionOutputs, now \in 0..MaxTime :
        process_review(review_id, chunks_data, now)

Query == \E intent \in IntentResponses : process_query(intent)

\* the request is over: its locals are gone
Finish ==
    /\ calls # <<>>
    /\ parsed' = AllNull
    /\ llm_intent' = NoIntent
    /\ Returns(NoResolution, NoResponse, 0, <<>>, FALSE, SynthNotCalled, <<>>, <<>>)
    /\ UNCHANGED <<store, unit>>

\* One request is on record at a time: Query runs it to its end against the
\* store as it is, Finish drops its record.
Next == Ingest \/ Chunk \/ Query \/ Finish

Spec == Init /\ [][Next]_vars

-----------------------------------------------------------------------------
(* filter_chunks_by_aspect on its own: every chunk list up to MaxLen over    *)
(* a few tags and contents, every target                                    *)

FilterAspects  == {"workload", "Workload", "overall", "Overall"}
FilterContents == {"a", "b"}
FilterTargets  == {None, "", "grading_exams", "GRADING_EXAMS", "workload", "WORKLOAD", "overall"}

FilterChunk(aspect, content) ==
    [aspect |-> aspect, content |-> content, sentiment |-> "neutral", course_code |-> "CSC 349"]

FilterChunkLists ==
    UNION {[1..n -> {FilterChunk(a, c) : a \in FilterAspects, c \in FilterContents}] :
             n \in 0..MaxLen}

InitFilter ==
    /\ EmptyStore /\ NoRequest /\ NoCallAlone /\ NoJob /\ NoStagedRequest
    /\ fetch = NoFetch /\ http = NoHttp
    /\ f_chunks \in FilterChunkLists
    /\ f_target \in FilterTargets
    /\ f_result = NoneList
    /\ f_applied = FALSE

ApplyFilter ==
    /\ ~f_applied
    /\ f_result' = filter_chunks_by_aspect(f_chunks, f_target)
    /\ f_applied' = TRUE
    /\ UNCHANGED <<store, query, f_chunks, f_target, alone, job, staged, edge>>

NextFilter == ApplyFilter

SpecFilter == InitFilter /\ [][NextFilter]_vars

-----------------------------------------------------------------------------
(* get_chunks on its own: called twice with the same arguments against the  *)
(* store as ingestion and chunking have left it                             *)

MaxLimit == 2

ChunkAspectArgs == {None, "", "overall", "Overall"}
ChunkCourseArgs == {None, "csc 349"}

\* retriever.get_chunks(professor_id, aspect, course_code, limit)
CallGetChunks(professor_id, aspect, course_code, limit) ==
    /\ chunks_call.n = 0
    /\ \E result \in get_chunks(review_chunks, reviews, professor_id, aspect,
                                 course_code, limit) :
          chunks_call' = [n |-> 1, professor_id |-> professor_id, aspect |-> aspect,
                          course_code |-> course_code, limit |-> limit,
                          first |-> result, second |-> <<>>]
    /\ UNCHANGED <<store, query, f_chunks, f_target, f_result, f_applied, resolve_call, job, staged, edge>>

\* the same call again, nothing written in between
CallGetChunksAgain ==
    /\ chunks_call.n = 1
    /\ \E result \in get_chunks(review_chunks, reviews, chunks_call.professor_id,
                                 chunks_call.aspect, chunks_call.course_code,
                                 chunks_call.limit) :
          chunks_call' = [chunks_call EXCEPT !.n = 2, !.second = result]
    /\ UNCHANGED <<store, query, f_chunks, f_target, f_result, f_applied, resolve_call, job, staged, edge>>

Load == chunks_call.n = 0 /\ \E prof_data \in Upstream : store_professor_data(prof_data, TRUE)

Extract == chunks_call.n = 0 /\ Chunk

Retrieve ==
    \E professor_id \in ProfIds, aspect \in ChunkAspectArgs,
       course_code \in ChunkCourseArgs, limit \in 0..MaxLimit :
        CallGetChunks(professor_id, aspect, course_code, limit)

NextChunks == Load \/ Extract \/ Retrieve \/ CallGetChunksAgain

SpecChunks == Init /\ [][NextChunks]_vars

-----------------------------------------------------------------------------
(* resolve_professor_course on its own: called twice with the same parsed   *)
(* query object against the store as ingestion has left it                  *)

\* the objects parse_query can hand over
ParsedQueries == {parse_query(intent) : intent \in IntentResponses}

\* a resolver that takes the course out of the dict it was given
\* (parsed_query.pop("course")) instead of reading it
CallResolveConsuming(parsed_query) ==
    /\ resolve_call.n = 0
    /\ resolve_call' =
          [n |-> 1, given |-> parsed_query,
           parsed_query |-> IF parsed_query.isdict
                            THEN [parsed_query EXCEPT !.course = None]
                            ELSE parsed_query,
           first |-> resolve_professor_course(professors_fts, reviews, parsed_query),
           second |-> NoResolveCall.second]
    /\ UNCHANGED <<store, query, f_chunks, f_target, f_result, f_applied, chunks_call, job, staged, edge>>

\* parser.resolve_professor_course(parsed_query): the dict is read with
\* .get only and the store with SELECT only
CallResolve(parsed_query) ==
    /\ resolve_call.n = 0
    /\ resolve_call' =
          [n |-> 1, given |-> parsed_query, parsed_query |-> parsed_query,
           first |-> resolve_professor_course(professors_fts, reviews, parsed_query),
           second |-> NoResolveCall.second]
    /\ UNCHANGED <<store, query, f_chunks, f_target, f_result, f_applied, chunks_call, job, staged, edge>>

\* the same object resolved again, nothing written in between
CallResolveAgain ==
    /\ resolve_call.n = 1
    /\ resolve_call' =
          [resolve_call EXCEPT
             !.n = 2,
             !.second = resolve_professor_course(professors_fts, reviews,
                                                 resolve_call.parsed_query)]
    /\ UNCHANGED <<store, query, f_chunks, f_target, f_result, f_applied, chunks_call, job, staged, edge>>

Refresh == resolve_call.n = 0 /\ Ingest

Resolve == \E parsed_query \in ParsedQueries : CallResolve(parsed_query)

NextResolve == Refresh \/ Resolve \/ CallResolveAgain

SpecResolve == Init /\ [][NextResolve]_vars

-----------------------------------------------------------------------------
(* The chunking batch, run after run, with ingestion between the runs       *)

Reload ==
    /\ batch.phase # "running"
    /\ \E prof_data \in Upstream : store_professor_data(prof_data, TRUE)

StartBatch == \E scope \in {None} \cup ProfIds : start_batch(scope)

BatchStep ==
    \E review_id \in ReviewIds, chunks_data \in ExtractionOutputs,
       stored_ok \in BOOLEAN, now \in 0..MaxTime :
        batch_step(review_id, chunks_data, stored_ok, now)

NextBatch == Reload \/ StartBatch \/ BatchStep \/ return_batch

SpecBatch == Init /\ [][NextBatch]_vars

-----------------------------------------------------------------------------
(* The chunking batch statement by statement, stopped and run again         *)

\* runs of process_all_reviews, with ingestion between them
NextRestart ==
    \/ Reload
    \/ start_batch(None)
    \/ \E review_id \in ReviewIds, chunks_data \in ExtractionOutputs \cup IncompleteOutputs :
          begin_iteration(review_id, chunks_data)
    \/ \E db_ok \in BOOLEAN : insert_chunk(db_ok)
    \/ \E now \in 0..MaxTime : commit_chunks(now)
    \/ interrupt
    \/ return_batch

SpecRestart == Init /\ [][NextRestart]_vars

-----------------------------------------------------------------------------
(* process_query stage by stage, for clients whose calls overlap: each call *)
(* has its own locals, all of them read the one store                       *)

\* intent replies of the overlapping requests: an answered question, a name
\* two professors match with a course guess, an unknown name, an empty JSON
\* array
StagedIntents ==
    {IntentObject("none", "Theresa Migler", None, "workload"),
     IntentObject("none", "theresa", "csc 349", None),
     IntentObject("none", "Nobody", None, None),
     IntentOther("text", "empty_array")}

beside == <<query, f_chunks, f_target, f_result, f_applied, alone, job, edge>>

\* the call of client c goes on with its locals as in me
GoesOn(c, me) == req' = [req EXCEPT ![c] = me]

\* the call of client c returns response_data and tokens
Returned(me, response_data, tokens) ==
    [me EXCEPT !.pc = "done", !.response = response_data, !.tokens = tokens]

\* an exception leaves the call of client c
Raised(me) == [me EXCEPT !.pc = "done", !.raised = TRUE]

\* parsed = self.parser.parse_query(user_query)
s_parse(c, intent) ==
    /\ req[c].pc = "idle"
    /\ GoesOn(c, [Idle EXCEPT !.pc = "parsed", !.intent = intent,
                              !.parsed = parse_query(intent),
                              !.stages = <<"parse">>, !.calls = <<"llm_intent">>])
    /\ UNCHANGED <<store, beside>>

\* resolved_prof_course = self.parser.resolve_professor_course(parsed);
\* if not resolved_prof_course["professor_id"]: return not found
s_resolve(c) ==
    /\ req[c].pc = "parsed"
    /\ LET r == resolve_professor_course(professors_fts, reviews, req[c].parsed)
           me == [req[c] EXCEPT !.stages = Append(@, "resolve"), !.calls = @ \o r.calls]
       IN  GoesOn(c, IF r.raised THEN Raised(me)
                     ELSE IF r.result.professor_id = None
                     THEN Returned([me EXCEPT !.resolved = r.result],
                                   ErrorResponse(NotFoundMessage), 0)
                     ELSE [me EXCEPT !.pc = "resolved", !.resolved = r.result])
    /\ UNCHANGED <<store, beside>>

\* a stats lookup that also counts the view on the professors row
s_stats_counting(c) ==
    /\ req[c].pc = "resolved"
    /\ LET id == req[c].resolved.professor_id
           me == [req[c] EXCEPT !.stages = Append(@, "stats"),
                                !.calls = Append(@, "stats_lookup")]
       IN  /\ GoesOn(c, IF ~HasProfessorRow(professors, id)
                         THEN Returned(me, ErrorResponse(NoInfoMessage), 0)
                         ELSE [me EXCEPT !.pc = "stats_loaded",
                                         !.prof_info =
                                             get_numerical_professor_info(professors, id)])
           /\ professors' = [professors EXCEPT ![id].num_evals = @ + 1]
    /\ UNCHANGED <<reviews, review_chunks, professors_fts, beside>>

\* prof_info = self.get_numerical_professor_info(...);
\* if not prof_info: return information not available
s_stats(c) ==
    /\ req[c].pc = "resolved"
    /\ LET id == req[c].resolved.professor_id
           me == [req[c] EXCEPT !.stages = Append(@, "stats"),
                                !.calls = Append(@, "stats_lookup")]
       IN  GoesOn(c, IF ~HasProfessorRow(professors, id)
                     THEN Returned(me, ErrorResponse(NoInfoMessage), 0)
                     ELSE [me EXCEPT !.pc = "stats_loaded",
                                     !.prof_info = get_numerical_professor_info(professors, id)])
    /\ UNCHANGED <<store, beside>>

\* chunks = self.retriever.get_chunks(..., limit=10);
\* if not chunks: return stats with the no-excerpts marker
s_fetch(c) ==
    /\ req[c].pc = "stats_loaded"
    /\ LET me == [req[c] EXCEPT !.stages = Append(@, "fetch"),
                                !.calls = Append(@, "get_chunks")]
       IN  IF Unbindable(req[c].resolved.aspect)
           THEN GoesOn(c, Raised(me))
           ELSE \E chunks \in get_chunks(review_chunks, reviews,
                                         req[c].resolved.professor_id,
                                         req[c].resolved.aspect,
                                         req[c].resolved.course_code, RetrievalLimit) :
                  GoesOn(c, IF chunks = <<>>
                            THEN Returned(me, NoChunksResponse(req[c].prof_info), 0)
                            ELSE [me EXCEPT !.pc = "chunks_fetched", !.chunks = chunks])
    /\ UNCHANGED <<store, beside>>

\* generate_summary, first part: filtered_chunks = filter_chunks_by_aspect;
\* if not filtered_chunks: return stats with the no-specific-excerpts marker
s_filter(c) ==
    /\ req[c].pc = "chunks_fetched"
    /\ LET f == filter_chunks_by_aspect(req[c].chunks, req[c].resolved.aspect)
           me == [req[c] EXCEPT !.stages = Append(@, "filter")]
       IN  GoesOn(c, IF f.none \/ f.list = <<>>
                     THEN Returned(me, DataResponse(req[c].prof_info, <<>>, NoSpecificMarker), 0)
                     ELSE [me EXCEPT !.pc = "filtered", !.filtered = f.list])
    /\ UNCHANGED <<store, beside>>

\* a synthesis step that calls again when the reply is no good
s_synthesize_retrying(c, reply) ==
    /\ req[c].pc = "filtered"
    /\ LET me == [req[c] EXCEPT !.stages = Append(@, "synthesis"),
                                !.calls = Append(@, "llm_synthesis")]
       IN  GoesOn(c, IF reply.kind = "ok"
                     THEN Returned(me, DataResponse(req[c].prof_info,
                                                    Excerpts(req[c].filtered),
                                                    strip(reply.content)),
                                   reply.total_tokens)
                     ELSE me)
    /\ UNCHANGED <<store, beside>>

\* generate_summary, second part: the synthesis call and what is returned
\* for its reply
s_synthesize(c, reply) ==
    /\ req[c].pc = "filtered"
    /\ LET me == [req[c] EXCEPT !.stages = Append(@, "synthesis"),
                                !.calls = Append(@, "llm_synthesis")]
       IN  GoesOn(c, IF reply.kind = "ok"
                     THEN Returned(me, DataResponse(req[c].prof_info,
                                                    Excerpts(req[c].filtered),
                                                    strip(reply.content)),
                                   reply.total_tokens)
                     ELSE Returned(me, ErrorResponse(SynthesisErrorText), 0))
    /\ UNCHANGED <<store, beside>>

AllIdle == \A c \in Clients : req[c].pc = "idle"

\* the store is written while no request is under way
Prepare == AllIdle /\ (Load \/ Extract)

Stage(c) ==
    /\ UNCHANGED wire
    /\ \/ \E intent \in StagedIntents : s_parse(c, intent)
       \/ s_resolve(c)
       \/ s_stats(c)
       \/ s_fetch(c)
       \/ s_filter(c)
       \/ \E reply \in SynthResponses : s_synthesize(c, reply)

NextStaged == Prepare \/ \E c \in Clients : Stage(c)

SpecStaged == Init /\ [][NextStaged]_vars

-----------------------------------------------------------------------------
(* The two model calls of process_query while they are in flight: a call    *)
(* is issued with its keyword arguments, and ends when the reply arrives or *)
(* when the timeout it was given fires                                      *)

SynthesisTimeout == 30

\* self.client.chat.completions.create(model=, messages=, temperature=,
\* max_tokens=) of parse_query
IntentCall ==
    [name |-> "llm_intent",
     kwargs |-> {"model", "messages", "temperature", "max_tokens"},
     timeout |-> 0]

\* self.client.chat.completions.create(model=, messages=, temperature=,
\* max_tokens=, timeout=30) of generate_summary
SynthesisCall ==
    [name |-> "llm_synthesis",
     kwargs |-> {"model", "messages", "temperature", "max_tokens", "timeout"},
     timeout |-> SynthesisTimeout]

\* process_query is entered and parse_query issues the intent call
create_intent(c) ==
    /\ req[c].pc = "idle"
    /\ wire[c] = NoCall
    /\ wire' = [wire EXCEPT ![c] = IntentCall]
    /\ UNCHANGED <<store, beside, req>>

\* the intent call ends (a reply, or an exception of the client) and
\* parse_query returns
intent_returns(c, intent) ==
    /\ wire[c].name = "llm_intent"
    /\ s_parse(c, intent)
    /\ wire' = [wire EXCEPT ![c] = NoCall]

\* the steps of process_query that make no model call
local_step(c) ==
    /\ wire[c] = NoCall
    /\ UNCHANGED wire
    /\ (s_resolve(c) \/ s_stats(c) \/ s_fetch(c) \/ s_filter(c))

\* generate_summary issues the synthesis call
create_synthesis(c) ==
    /\ req[c].pc = "filtered"
    /\ wire[c] = NoCall
    /\ wire' = [wire EXCEPT ![c] = SynthesisCall]
    /\ UNCHANGED <<store, beside, req>>

\* the synthesis call ends before its timeout and generate_summary returns
synthesis_returns(c, reply) ==
    /\ wire[c].name = "llm_synthesis"
    /\ reply.kind # "timeout"
    /\ s_synthesize(c, reply)
    /\ wire' = [wire EXCEPT ![c] = NoCall]

\* the timeout given to the call in flight fires: create() raises
timeout_fires(c) ==
    /\ "timeout" \in wire[c].kwargs
    /\ IF wire[c].name = "llm_intent"
       THEN s_parse(c, IntentOther("call_error", "malformed"))
       ELSE s_synthesize(c, SynthReply("timeout", "", 0))
    /\ wire' = [wire EXCEPT ![c] = NoCall]

InFlight(c) ==
    \/ create_intent(c)
    \/ \E intent \in StagedIntents \cup {IntentOther("call_error", "malformed")} :
          intent_returns(c, intent)
    \/ local_step(c)
    \/ create_synthesis(c)
    \/ \E reply \in SynthResponses : synthesis_returns(c, reply)
    \/ timeout_fires(c)

\* one client's calls are followed on the wire
NextWire == Prepare \/ InFlight("c1")

SpecWire == Init /\ [][NextWire]_vars

-----------------------------------------------------------------------------
(* get_professor_details and rebuild_fuzzy_search on their own, every      *)
(* request failing, succeeding or coming back empty                         *)

NextFetch ==
    \/ \E professor_id \in ProfIds : get_professor_details(professor_id)
    \/ \E kind \in {"error", "empty", "data"}, prof_data \in Upstream, stored_ok \in BOOLEAN :
          http_get(kind, prof_data, stored_ok)
    \/ \E fts_ok \in BOOLEAN : index_professor(fts_ok)
    \/ \E ok \in BOOLEAN : rebuild_fuzzy_search(ok)

SpecFetch == Init /\ [][NextFetch]_vars

-----------------------------------------------------------------------------
(* Ingestion, transaction by transaction, while requests are served stage  *)
(* by stage up to the stats lookup: the requests to the upstream API that   *)
(* get an answer, and the transactions they lead to, committed or failed    *)

\* process_query from its call to "if not prof_info"
Lookup(c) ==
    /\ UNCHANGED wire
    /\ \/ \E intent \in StagedIntents : s_parse(c, intent)
       \/ s_resolve(c)
       \/ s_stats(c)

NextIngest ==
    \/ \E professor_id \in ProfIds : get_professor_details(professor_id)
    \/ \E kind \in {"empty", "data"}, prof_data \in Upstream, stored_ok \in BOOLEAN :
          http_get(kind, prof_data, stored_ok)
    \/ \E fts_ok \in BOOLEAN : index_professor(fts_ok)
    \/ \E ok \in BOOLEAN : rebuild_fuzzy_search(ok)
    \/ \E c \in Clients : Lookup(c)

SpecIngest == Init /\ [][NextIngest]_vars

-----------------------------------------------------------------------------
(* POST /api/query: request validation, the rate limiter and the handler   *)
(* query_professor, against a store that ingestion and chunking fill        *)

\* QueryRequest: query: str = Field(..., max_length=100, min_length=1)
min_length == 1
max_length == 100

\* request bodies: the text of the query field and its length in characters
ApiQueries ==
    {[text |-> "", length |-> 0],
     [text |-> " ", length |-> 1],
     [text |-> "How is the workload with Theresa Migler?", length |-> 40],
     [text |-> "<a question of 101 characters>", length |-> 101]}

\* str(e) of the HTTPException raised in the handler: "status: detail" where
\* the installed framework defines __str__, the empty string where it does not
HTTPExceptionStr == {"400: Query cannot be empty", ""}

\* the HTTP response to the request: status, detail (the parts of the
\* detail string, in order), and what the handler did on the way
Answers(query_request, status, detail, called, response_, tokens_) ==
    http' = [query |-> query_request.text, length |-> query_request.length, status |-> status,
             detail |-> detail, called |-> called, response |-> response_,
             tokens_used |-> tokens_]

\* One POST /api/query.  A body that fails the length validation is answered
\* by the validation handler (422) and a request over the limit by the
\* limiter (429) before the handler runs.  In the handler every exception
\* raised inside the try block, the HTTPException of the empty-query test
\* included, reaches "except Exception" and leaves as status 500.
query_professor(query_request, limited, intent, str_e) ==
    /\ UNCHANGED <<store, query, f_chunks, f_target, f_result, f_applied,
                   alone, job, staged, fetch>>
    /\ IF ~(min_length <= query_request.length /\ query_request.length <= max_length)
       THEN Answers(query_request, 422, <<"Validation failed">>, FALSE, NoResponse, 0)
       ELSE IF limited
       THEN Answers(query_request, 429, <<>>, FALSE, NoResponse, 0)
       ELSE IF strip(query_request.text) = ""
       THEN Answers(query_request, 500, <<"Error processing query: ", str_e>>, FALSE,
                    NoResponse, 0)
       ELSE \E o \in process_query_outcomes(professors_fts, professors, reviews,
                                            review_chunks, intent) :
               IF o.raised
               THEN Answers(query_request, 500, <<"Error processing query: ", "<str(e)>">>,
                            TRUE, NoResponse, 0)
               ELSE Answers(query_request, 200, <<>>, TRUE, o.response, o.tokens)

NextApi ==
    \/ Ingest
    \/ Chunk
    \/ \E query_request \in ApiQueries, limited \in BOOLEAN, intent \in StagedIntents,
          str_e \in HTTPExceptionStr :
          query_professor(query_request, limited, intent, str_e)

SpecApi == Init /\ [][NextApi]_vars

-----------------------------------------------------------------------------
(* Properties of process_query, stated on the request that has just run *)

Called(name) == name \in Range(calls)
RequestRan   == calls # <<>>

\* the numeric stats block of the professors row of id
StatsRow(id) ==
    [overall_rating |-> professors[id].overall_rating,
     material_clear |-> professors[id].material_clear,
     student_difficulties |-> professors[id].student_difficulties,
     num_evals |-> professors[id].num_evals]

\* C1: whenever the parser yields professor = null (soft failures included),
\* process_query returns the 'Professor not found' error with 0 tokens and
\* its only external call is the intent extraction: no index search, no
\* stats lookup, no chunk retrieval, no synthesis call.
C1_NoNameIsNotFound ==
    (RequestRan /\ parsed.isdict /\ parsed.professor = None) =>
        /\ ~raised
        /\ response = ErrorResponse(NotFoundMessage)
        /\ tokens_used = 0
        /\ calls = <<"llm_intent">>

C1_Witness ==
    /\ RequestRan
    /\ llm_intent.kind = "text" /\ llm_intent.shape = "object"
    /\ llm_intent.professor = "null" /\ llm_intent.course = "csc 349"
    /\ parsed.isdict /\ parsed.professor = None
    /\ professors_fts # <<>>
    /\ response.error = NotFoundMessage

\* C2: for a resolved professor with a stats row whose chunk retrieval comes
\* back empty, the response carries the professor's stats block, an empty
\* excerpts list and the 'no excerpts found' marker, tokens_used is 0 and no
\* synthesis call is made.
C2_NoChunksGivesStatsOnly ==
    (RequestRan /\ ~raised /\ Called("get_chunks") /\ fetched = <<>>) =>
        /\ response.keys = {"professor", "stats", "excerpts", "analysis"}
        /\ response.stats = StatsRow(resolved.professor_id)
        /\ response.excerpts = <<>>
        /\ response.analysis = NoExcerptsMarker
        /\ tokens_used = 0
        /\ ~Called("llm_synthesis")
        /\ llm_synth = SynthNotCalled

C2_Witness ==
    /\ RequestRan /\ ~raised /\ Called("get_chunks") /\ fetched = <<>>
    /\ resolved.professor_id = "p1"
    /\ professors["p1"].present
    /\ response.analysis = NoExcerptsMarker
    /\ response.stats.overall_rating = 35

\* C4 (as claimed): when the professor has no stored chunk of the requested
\* aspect but has one tagged 'overall', the synthesis call is made with the
\* overall chunks and they are the excerpts.
StoredAspects(id, course_code) ==
    {review_chunks[i].aspect :
        i \in Qualifying(review_chunks, reviews, id, None, course_code)}

C4_DegradesToOverall ==
    (/\ RequestRan /\ ~raised
     /\ resolved.professor_id # None
     /\ HasProfessorRow(professors, resolved.professor_id)
     /\ resolved.aspect \in CanonicalAspects
     /\ resolved.aspect \notin StoredAspects(resolved.professor_id, resolved.course_code)
     /\ "overall" \in StoredAspects(resolved.professor_id, resolved.course_code))
    =>
        /\ Called("llm_synthesis")
        /\ prompt_chunks # <<>>
        /\ \A i \in DOMAIN prompt_chunks : prompt_chunks[i].aspect = "overall"
        /\ response.analysis # NoExcerptsMarker

\* C5 (as claimed): with a non-null resolved aspect A, every excerpt of an
\* answered response and every chunk rendered into the prompt is tagged A
\* (ignoring case) or 'overall', and never a mix of the two.
TaggedOnly(chunks, tag) == \A i \in DOMAIN chunks : lower(chunks[i].aspect) = tag

Answered ==
    /\ RequestRan /\ ~raised
    /\ Called("llm_synthesis")
    /\ response.keys = {"professor", "stats", "excerpts", "analysis"}

C5_EvidenceOnTopicOrOverall ==
    (RequestRan /\ ~raised /\ resolved.aspect # None) =>
        /\ \/ TaggedOnly(prompt_chunks, lower(resolved.aspect))
           \/ TaggedOnly(prompt_chunks, "overall")
        /\ Answered =>
              \/ TaggedOnly(response.excerpts, lower(resolved.aspect))
              \/ TaggedOnly(response.excerpts, "overall")

\* C6: the resolved course_code is null or the course code of a stored
\* review of the resolved professor; a guess no review of that professor
\* carries is dropped.
C6_CourseIsTaught ==
    (RequestRan /\ ~raised) =>
        \/ resolved.course_code = None
        \/ \E r \in ReviewIds :
              /\ reviews[r].present
              /\ reviews[r].professor_id = resolved.professor_id
              /\ reviews[r].course_code = resolved.course_code

C6_Witness ==
    /\ RequestRan /\ ~raised
    /\ parsed.course = "CSC 999"
    /\ resolved.professor_id = "p1"
    /\ resolved.course_code = None
    /\ reviews["r1"].present /\ reviews["r1"].course_code = "CSC 349"
    /\ reviews["r3"].present /\ reviews["r3"].course_code = "CSC 999"

\* C7 (as claimed): the aspect of the parsed query and of the resolved query
\* is null or one of the seven canonical tags.
C7_AspectIsCanonical ==
    RequestRan =>
        /\ parsed.aspect \in CanonicalAspects \cup {None}
        /\ resolved.aspect \in CanonicalAspects \cup {None}

\* C8: the intent call failing, or its content not being JSON (malformed
\* text, or JSON left inside a bare code fence), makes parse_query return
\* exactly the all-null triple.
IntentFailed ==
    \/ llm_intent.kind = "call_error"
    \/ llm_intent.kind = "text" /\ llm_intent.shape = "malformed"
    \/ llm_intent.kind = "text" /\ llm_intent.fence = "bare"

C8_ParseFailsSoftly ==
    (RequestRan /\ IntentFailed) =>
        /\ parsed.isdict
        /\ parsed.professor = None /\ parsed.course = None /\ parsed.aspect = None

C8_Witness ==
    /\ RequestRan
    /\ llm_intent.kind = "text" /\ llm_intent.shape = "malformed"
    /\ parsed = AllNull
    /\ response.error = NotFoundMessage

\* C9 (as claimed): no exception leaves process_query.
C9_NoExceptionEscapes == RequestRan => ~raised

\* C10: when the synthesis call fails (create() raising, the timeout
\* firing, a reply without content or without usage), the outcome is the
\* error response with 0 tokens and no exception; the timeout gives the
\* same outcome as the other failures.
C10_SynthesisFailureIsErrorResponse ==
    (RequestRan /\ Called("llm_synthesis") /\ llm_synth.kind # "ok") =>
        /\ ~raised
        /\ response = ErrorResponse(SynthesisErrorText)
        /\ tokens_used = 0

C10_Witness ==
    /\ RequestRan /\ Called("llm_synthesis")
    /\ llm_synth.kind = "timeout"
    /\ response.keys = {"error"}
    /\ tokens_used = 0

-----------------------------------------------------------------------------
(* Properties of filter_chunks_by_aspect *)

\* the positions of chunks whose tag is tag, ignoring case
TaggedAt(chunks, tag) == {i \in DOMAIN chunks : lower(chunks[i].aspect) = lower(tag)}

\* list holds exactly the chunks at the positions at, in their order
IsSelection(list, chunks, at) ==
    /\ Len(list) = Cardinality(at)
    /\ \A k \in DOMAIN list :
          \E i \in at : Cardinality({j \in at : j < i}) = k - 1 /\ list[k] = chunks[i]

\* C3: the fallback ladder.  No target: the chunks unchanged.  A target some
\* chunk matches (ignoring case): exactly the matching chunks in order.
\* Else the chunks tagged overall, if any.  Else null.
C3_FallbackLadder ==
    f_applied =>
        IF f_target \in {None, ""}
        THEN ~f_result.none /\ f_result.list = f_chunks
        ELSE IF TaggedAt(f_chunks, f_target) # {}
        THEN ~f_result.none /\ IsSelection(f_result.list, f_chunks, TaggedAt(f_chunks, f_target))
        ELSE IF TaggedAt(f_chunks, "overall") # {}
        THEN ~f_result.none /\ IsSelection(f_result.list, f_chunks, TaggedAt(f_chunks, "overall"))
        ELSE f_result.none

C3_Witness ==
    /\ f_applied
    /\ f_target = "grading_exams"
    /\ f_chunks = <<FilterChunk("workload", "a"), FilterChunk("overall", "b")>>
    /\ f_result = SomeList(<<FilterChunk("overall", "b")>>)

-----------------------------------------------------------------------------
(* Terminal responses of process_query reached before the synthesis call *)

\* C11 (as claimed): every response process_query returns without having
\* made the synthesis call contains the numeric stats block.
C11_StatsInEveryEarlyTerminal ==
    (RequestRan /\ ~raised /\ ~Called("llm_synthesis")) =>
        /\ "stats" \in response.keys
        /\ response.stats = StatsRow(resolved.professor_id)

\* C11 (amended): a response returned without the synthesis call is the
\* 'not found' error when no professor was resolved, the 'information not
\* available' error when the resolved id has no professors row, and in
\* every other case carries the stats block of the resolved professor.
C11_StatsOnceLoaded ==
    (RequestRan /\ ~raised /\ ~Called("llm_synthesis")) =>
        IF resolved.professor_id = None
        THEN response = ErrorResponse(NotFoundMessage)
        ELSE IF ~HasProfessorRow(professors, resolved.professor_id)
        THEN response = ErrorResponse(NoInfoMessage)
        ELSE /\ "stats" \in response.keys
             /\ response.stats = StatsRow(resolved.professor_id)
             /\ "error" \notin response.keys

C11_Witness ==
    /\ RequestRan /\ ~raised /\ ~Called("llm_synthesis")
    /\ resolved.professor_id = "p2"
    /\ Called("stats_lookup")
    /\ "stats" \in response.keys
    /\ response.stats.num_evals = professors["p2"].num_evals
    /\ review_chunks # <<>>

\* C12: a name the index has no match for resolves to the all-null result,
\* and process_query returns exactly the 'not found' error with 0 tokens
\* after the intent call and the index search: no course lookup, no stats
\* lookup, no chunk retrieval, no synthesis call.
NoIndexMatch(q) == \A i \in DOMAIN professors_fts : ~FtsMatches(professors_fts[i], q)

C12_NoMatchIsNotFound ==
    (/\ RequestRan /\ parsed.isdict
     /\ Truthy(parsed.professor)
     /\ ~Unbindable(parsed.professor) /\ ~FtsSyntaxError(parsed.professor)
     /\ NoIndexMatch(parsed.professor))
    =>
        /\ ~raised
        /\ resolved = NoResolution
        /\ response = ErrorResponse(NotFoundMessage)
        /\ tokens_used = 0
        /\ calls = <<"llm_intent", "fts_search">>
        /\ llm_synth = SynthNotCalled
        /\ fetched = <<>>

C12_Witness ==
    /\ RequestRan
    /\ parsed.professor = "Nobody" /\ parsed.course = "csc 349" /\ parsed.aspect = "workload"
    /\ Len(professors_fts) = 2
    /\ NoIndexMatch("Nobody")
    /\ response.error = NotFoundMessage
    /\ calls = <<"llm_intent", "fts_search">>

-----------------------------------------------------------------------------
(* Properties of get_chunks *)

Supplied(v) == v \notin {None, ""}

\* the stored chunk rows the arguments of the call select
Wanted ==
    {i \in DOMAIN review_chunks :
        LET r == reviews[review_chunks[i].review_id] IN
        /\ r.present
        /\ r.professor_id = chunks_call.professor_id
        /\ Supplied(chunks_call.aspect) => review_chunks[i].aspect = chunks_call.aspect
        /\ Supplied(chunks_call.course_code) =>
              lower(r.course_code) = lower(chunks_call.course_code)}

\* result lists, newest first, rows of Wanted such that no row left out is
\* newer than a row listed
NewestOfWanted(result) ==
    \E at \in [DOMAIN result -> Wanted] :
        /\ \A k, l \in DOMAIN result : k # l => at[k] # at[l]
        /\ \A k \in DOMAIN result :
              /\ result[k].aspect = review_chunks[at[k]].aspect
              /\ result[k].content = review_chunks[at[k]].content
              /\ result[k].sentiment = review_chunks[at[k]].sentiment
              /\ result[k].course_code = reviews[review_chunks[at[k]].review_id].course_code
        /\ \A k, l \in DOMAIN result :
              k < l => review_chunks[at[k]].created_at >= review_chunks[at[l]].created_at
        /\ \A i \in Wanted \ {at[k] : k \in DOMAIN result} :
              \A k \in DOMAIN result :
                  review_chunks[at[k]].created_at >= review_chunks[i].created_at

\* C13: get_chunks(professor_id, aspect, course_code, limit) returns the
\* newest min(limit, number of selected rows) chunks, newest first, of the
\* rows of that professor whose aspect equals the supplied aspect exactly
\* and whose review's course equals the supplied course ignoring case; the
\* empty sequence when nothing is selected; never another professor's chunk.
C13_NewestFirstUpToLimit ==
    chunks_call.n >= 1 =>
        /\ Len(chunks_call.first) =
              IF chunks_call.limit < Cardinality(Wanted)
              THEN chunks_call.limit ELSE Cardinality(Wanted)
        /\ NewestOfWanted(chunks_call.first)

C13_Witness ==
    /\ chunks_call.n >= 1
    /\ chunks_call.professor_id = "p1" /\ chunks_call.aspect = "overall"
    /\ chunks_call.course_code = None /\ chunks_call.limit = 1
    /\ Len(review_chunks) = 2
    /\ review_chunks[1].review_id = "r2" /\ review_chunks[2].review_id = "r1"
    /\ review_chunks[1].created_at < review_chunks[2].created_at
    /\ Cardinality(Wanted) = 2
    /\ Len(chunks_call.first) = 1
    /\ chunks_call.first[1].content = review_chunks[2].content

-----------------------------------------------------------------------------
(* Properties of resolve_professor_course *)

-----------------------------------------------------------------------------
(* Properties of the chunking batch *)

\* the reviews some row of chunks belongs to
ReviewsWithChunks(chunks) == {chunks[i].review_id : i \in DOMAIN chunks}

\* C16: in a batch run an iteration for a review that already has a stored
\* chunk makes no extraction call, inserts nothing and counts the review as
\* processed; a run that starts with every listed review having chunks ends
\* with review_chunks as it was and tokens = 0.
C16_ChunkedReviewsAreSkipped ==
    [][/\ (/\ batch.phase = "running"
           /\ batch'.todo # batch.todo
           /\ batch'.current \in ReviewsWithChunks(review_chunks))
          => /\ review_chunks' = review_chunks
             /\ batch'.extractions = batch.extractions
             /\ batch'.processed = batch.processed + 1
             /\ batch'.failed = batch.failed
             /\ batch'.tokens = batch.tokens
       /\ (/\ batch'.phase = "done"
           /\ batch'.listed \subseteq ReviewsWithChunks(batch'.before))
          => /\ review_chunks' = batch'.before
             /\ batch'.tokens = 0
             /\ batch'.extractions = 0
             /\ batch'.processed = Cardinality(batch'.listed)
             /\ batch'.failed = 0]_vars

C16_Witness ==
    /\ batch.phase = "done" /\ batch.run = 2
    /\ batch.scope = None
    /\ batch.listed = {"r1", "r2"}
    /\ batch.listed \subseteq ReviewsWithChunks(batch.before)
    /\ batch.processed = 2 /\ batch.tokens = 0
    /\ Len(review_chunks) = 2

-----------------------------------------------------------------------------
(* Token accounting of process_query *)

SynthesisCalls == {i \in DOMAIN calls : calls[i] = "llm_synthesis"}

SynthesisSucceeded == SynthesisCalls # {} /\ llm_synth.kind = "ok"

\* C17: tokens_used is the total token count the synthesis call reported
\* when that call succeeded and 0 in every other outcome; tokens_used > 0
\* implies exactly one synthesis call, and a successful one.
C17_TokensAreTheSynthesisTotal ==
    (RequestRan /\ ~raised) =>
        /\ tokens_used = IF SynthesisSucceeded THEN llm_synth.total_tokens ELSE 0
        /\ tokens_used > 0 => Cardinality(SynthesisCalls) = 1 /\ llm_synth.kind = "ok"

C17_Witness ==
    /\ RequestRan /\ ~raised
    /\ Called("llm_synthesis")
    /\ llm_synth.kind = "ok" /\ llm_synth.total_tokens = 321
    /\ tokens_used = 321
    /\ Cardinality(SynthesisCalls) = 1
    /\ response.analysis = "She is organized."

-----------------------------------------------------------------------------
(* Properties of overlapping process_query calls *)

\* what the call of client c has returned, or that it raised
Result(me) == [response |-> me.response, tokens |-> me.tokens, raised |-> me.raised]

\* the results a process_query call with this intent reply can have when it
\* runs alone against the store
AloneResults(intent) ==
    {[response |-> o.response, tokens |-> o.tokens, raised |-> o.raised] :
        o \in process_query_outcomes(professors_fts, professors, reviews,
                                     review_chunks, intent)}

\* C18: no stage of a process_query call writes the store, and each of the
\* overlapping calls ends with a result it can have when run alone against
\* that store.
C18_QueryPathIsReadOnly ==
    [][(req' # req) =>
          /\ store' = store
          /\ \A c \in Clients :
                req'[c].pc = "done" => Result(req'[c]) \in AloneResults(req'[c].intent)]_vars

C18_Witness ==
    /\ req["c1"].pc = "done" /\ req["c2"].pc = "done"
    /\ req["c1"].intent.professor = "Theresa Migler"
    /\ req["c2"].intent.professor = "theresa" /\ req["c2"].resolved.course_code = "CSC 349"
    /\ req["c1"].tokens = 321 /\ req["c2"].tokens = 0
    /\ req["c2"].response.keys = {"error"}
    /\ "synthesis" \in Range(req["c2"].stages)

-----------------------------------------------------------------------------
(* Order of the stages of a process_query call *)

StageOrder == <<"parse", "resolve", "stats", "fetch", "filter", "synthesis">>

IsPrefix(s, t) == Len(s) <= Len(t) /\ \A i \in DOMAIN s : s[i] = t[i]

\* C19: the stages of a call run in the order parse, resolve, stats load,
\* chunk fetch, aspect filter, synthesis call, none of them twice; the
\* intent call is the first external call; the synthesis call is made at
\* most once and only with a resolved professor id, a stats row, fetched
\* chunks and a non-empty filtered list; after the call has ended no stage
\* runs.
C19_StagesInOrder ==
    [][\A c \in Clients :
          LET me == req'[c] IN
          /\ IsPrefix(me.stages, StageOrder)
          /\ me.calls # <<>> => me.calls[1] = "llm_intent"
          /\ Cardinality({i \in DOMAIN me.calls : me.calls[i] = "llm_synthesis"}) <= 1
          /\ "synthesis" \in Range(me.stages) =>
                /\ me.resolved.professor_id \in ProfIds
                /\ professors[me.resolved.professor_id].present
                /\ me.prof_info.num_evals = professors[me.resolved.professor_id].num_evals
                /\ me.chunks # <<>>
                /\ me.filtered # <<>>
                /\ "llm_synthesis" \in Range(me.calls)
          /\ "llm_synthesis" \in Range(me.calls) => "synthesis" \in Range(me.stages)
          /\ req[c].pc = "done" => me = req[c]]_vars

C19_Witness ==
    /\ req["c1"].pc = "done" /\ req["c1"].stages = StageOrder
    /\ req["c1"].calls = <<"llm_intent", "fts_search", "stats_lookup", "get_chunks",
                           "llm_synthesis">>
    /\ req["c2"].pc = "done" /\ req["c2"].stages = <<"parse", "resolve", "stats", "fetch">>
    /\ req["c2"].response.analysis = NoExcerptsMarker

-----------------------------------------------------------------------------
(* Which entry the name search returns *)

\* the index rows the name matches
Hits(q) == {i \in DOMAIN professors_fts : FtsMatches(professors_fts[i], q)}

\* words of an index row: those of the name and the professor id
RowLength(row) == Cardinality(Tokens(row.name)) + Cardinality(Tokens(row.professor_id))

\* the hits the index ranks first: FTS5 ranks by bm25, which for rows that
\* hold each query word once puts the shorter row first
TopRanked(q) == {i \in Hits(q) : \A j \in Hits(q) : RowLength(professors_fts[i]) <= RowLength(professors_fts[j])}

\* C20 (as claimed): when several index entries match the name,
\* resolve_professor_course returns the entry the index ranks highest.
C20_ReturnsTopRankedHit ==
    (/\ resolve_call.n >= 1
     /\ ~resolve_call.first.raised
     /\ resolve_call.first.result.professor_id # None
     /\ Cardinality(Hits(resolve_call.given.professor)) > 1)
    =>
        \E i \in TopRanked(resolve_call.given.professor) :
            /\ resolve_call.first.result.professor_id = professors_fts[i].professor_id
            /\ resolve_call.first.result.professor_name = professors_fts[i].name

-----------------------------------------------------------------------------
(* Code fences around the intent reply *)

\* the same reply with the fence taken off
Unfenced(resp) == [resp EXCEPT !.fence = "none"]

\* C21 (as claimed): a JSON object wrapped in a code fence, tagged json or
\* bare, is parsed to the same triple as the object without the fence.
C21_FenceIsStripped ==
    (/\ RequestRan
     /\ llm_intent.kind = "text" /\ llm_intent.shape = "object"
     /\ llm_intent.fence \in {"json", "bare"})
    => parsed = parse_query(Unfenced(llm_intent))

-----------------------------------------------------------------------------
(* Timeouts of the model calls *)

\* C22 (as claimed): each of the two model calls of process_query is
\* bounded by an explicit timeout: a call in flight was given one.
C22_ModelCallsHaveTimeout ==
    \A c \in Clients :
        wire[c] # NoCall => ("timeout" \in wire[c].kwargs /\ wire[c].timeout > 0)

-----------------------------------------------------------------------------
(* The chunking batch stopped and run again; failures while storing *)

\* what the table holds of a review: aspect, content and sentiment of its
\* rows, in rowid order
StoredOutput(r) ==
    LET rows == SeqFilterIdx(review_chunks,
                             {i \in DOMAIN review_chunks : review_chunks[i].review_id = r})
    IN  [i \in DOMAIN rows |-> [aspect |-> rows[i].aspect, content |-> rows[i].content,
                                sentiment |-> rows[i].sentiment]]

\* C23: whatever point a run is stopped at and however often the job is run
\* again, the stored chunks of each review are those of at most one
\* extraction call, and all of them: no duplicated and no partial chunk set.
C23_WholeChunkSetsAcrossRestarts ==
    \A r \in ReviewIds :
        /\ Len(txn.origin[r]) <= 1
        /\ StoredOutput(r) = IF txn.origin[r] = <<>> THEN <<>> ELSE txn.origin[r][1]

\* a run was stopped after the first of two rows of r1 was inserted; the
\* next run ran to its end and r1 holds both chunks of one extraction
C23_Witness ==
    /\ batch.run = 2 /\ batch.phase = "done"
    /\ txn.dropped = "r1"
    /\ Len(StoredOutput("r1")) = 2
    /\ txn.origin["r1"] = <<StoredOutput("r1")>>

\* a step of the loop that visits a review
Visits ==
    /\ batch.phase = "running" /\ batch'.phase = "running"
    /\ txn.pc = "idle"
    /\ batch' # batch

\* C30: when an insert of _store_chunks fails, no chunk of the review is in
\* the table and the review is counted as failed (the call returned False);
\* a review counted as failed has no stored chunk, and the next visit of it
\* makes an extraction call instead of skipping it.
C30_StoreChunksIsAllOrNothing ==
    [][/\ (txn.pc = "storing" /\ batch'.failed = batch.failed + 1)
          => /\ review_chunks' = review_chunks
             /\ txn.review_id \notin ReviewsWithChunks(review_chunks')
             /\ txn.review_id \in txn'.failed
       /\ \A r \in txn'.failed : r \notin ReviewsWithChunks(review_chunks')
       /\ (Visits /\ batch'.current \in txn.failed)
          => /\ batch'.extractions = batch.extractions + 1
             /\ batch'.processed = batch.processed]_vars

\* the second chunk of r1 lacked a key: the first had been inserted, nothing
\* of r1 is stored, r1 is counted as failed
C30_Witness ==
    /\ txn.pc = "idle" /\ txn.review_id = "r1"
    /\ Len(txn.chunks_data) = 2 /\ ~HasKeys(txn.chunks_data[2])
    /\ "r1" \in txn.failed
    /\ batch.failed = 1
    /\ "r1" \notin ReviewsWithChunks(review_chunks)

-----------------------------------------------------------------------------
(* Stored reviews under repeated ingestion *)

\* C24 (as claimed): once a review row exists, no later store_professor_data
\* call changes any of its stored fields.
C24_StoredReviewsNeverChange ==
    [][\A r \in ReviewIds : reviews[r].present => reviews'[r] = reviews[r]]_vars

-----------------------------------------------------------------------------
(* The evidence list of an answered response *)

\* C25: in an answered response the excerpts are the chunks rendered into
\* the synthesis prompt (the filtered chunks), one for one and in the same
\* order, at most the retrieval limit of them, each as its aspect and
\* content; the stats block and the analysis text come with them.
C25_ExcerptsAreThePromptChunks ==
    Answered =>
        /\ ~filter_chunks_by_aspect(fetched, resolved.aspect).none
        /\ prompt_chunks = filter_chunks_by_aspect(fetched, resolved.aspect).list
        /\ Len(response.excerpts) = Len(prompt_chunks)
        /\ Len(response.excerpts) <= RetrievalLimit
        /\ \A i \in DOMAIN prompt_chunks :
              /\ DOMAIN response.excerpts[i] = {"aspect", "content"}
              /\ response.excerpts[i].aspect = prompt_chunks[i].aspect
              /\ response.excerpts[i].content = prompt_chunks[i].content
        /\ response.stats = StatsRow(resolved.professor_id)
        /\ response.professor = get_numerical_professor_info(professors, resolved.professor_id)
        /\ response.analysis = strip(llm_synth.content)

C25_Witness ==
    /\ Answered
    /\ resolved.aspect = None
    /\ Len(prompt_chunks) = 2
    /\ prompt_chunks[1].aspect # prompt_chunks[2].aspect
    /\ Len(response.excerpts) = 2
    /\ response.excerpts[1].content = prompt_chunks[1].content
    /\ response.analysis = "She is organized."

-----------------------------------------------------------------------------
(* The aspect filter as process_query reaches it *)

\* C27 (as claimed): when the resolved aspect is not null, every chunk that
\* process_query hands to filter_chunks_by_aspect carries exactly that
\* aspect, the filter returns them unchanged (no 'overall' fallback, no
\* null), and no request ends with the 'No specific review excerpts' text.
C27_FilterNeverFallsBack ==
    /\ (RequestRan /\ ~raised /\ resolved.aspect # None /\ fetched # <<>>) =>
          /\ \A i \in DOMAIN fetched : fetched[i].aspect = resolved.aspect
          /\ prompt_chunks = fetched
    /\ RequestRan => response.analysis # NoSpecificMarker

-----------------------------------------------------------------------------
(* The name index against the professors table, under ingestion *)

\* C26: whatever transaction of ingestion (committed or failed) comes
\* between the stages of a request, every entry of the name index names a
\* professor that has a row in professors; so a professor id the resolver
\* returned has a stats row, and no request ends with 'Professor
\* information not available'.
C26_IndexedProfessorsExist ==
    /\ \A i \in DOMAIN professors_fts :
          HasProfessorRow(professors, professors_fts[i].professor_id)
    /\ \A c \in Clients :
          /\ req[c].resolved.professor_id # None
                => HasProfessorRow(professors, req[c].resolved.professor_id)
          /\ req[c].response.error # NoInfoMessage

\* a request resolved p1 from the entry of the first ingestion and read the
\* stats of the refreshed row, the refresh having committed its rows and
\* not yet its index entry
C26_Witness ==
    /\ fetch.pc = "stored" /\ fetch.prof_data.id = "p1"
    /\ req["c1"].pc = "stats_loaded"
    /\ req["c1"].resolved.professor_id = "p1"
    /\ professors["p1"].num_evals = 2
    /\ req["c1"].prof_info.num_evals = 2

-----------------------------------------------------------------------------
(* The retries of get_professor_details *)

\* C29: a get_professor_details call makes at most max_retries + 1
\* requests and then has returned; when every request failed it made
\* exactly max_retries + 1 = 4 of them (retry_count 0..3), returns None and
\* no failed request wrote the store; the first request that succeeds is
\* the last one; a reply without professor data ends the call with None
\* and no retry.
C29_RetriesAreBounded ==
    [][/\ fetch'.attempts <= max_retries + 1
       /\ fetch'.pc = "requesting"
             => /\ fetch'.attempts = fetch'.retry_count
                /\ fetch'.last \in {None, "error"}
       /\ (fetch'.pc = "returned" /\ fetch'.last = "error")
             => /\ fetch'.attempts = max_retries + 1
                /\ fetch'.retry_count = max_retries
                /\ fetch'.result = None /\ ~fetch'.raised
       /\ (fetch'.attempts = fetch.attempts + 1 /\ fetch'.last \in {"error", "empty"})
             => UNCHANGED store
       /\ fetch'.last = "empty"
             => /\ fetch'.pc = "returned"
                /\ fetch'.result = None
                /\ fetch'.retry_count = fetch.retry_count
       /\ fetch'.last = "data"
             => fetch'.pc \in {"stored", "returned"}]_vars

\* four requests failed one after the other and the call returned None
C29_Witness ==
    /\ fetch.pc = "returned" /\ fetch.last = "error"
    /\ fetch.attempts = 4 /\ fetch.retry_count = 3
    /\ fetch.result = None
    /\ ~professors[fetch.professor_id].present

-----------------------------------------------------------------------------
(* C28: the empty-query answer of POST /api/query *)

\* C28: a request whose query passes the 1..100 length validation and is
\* empty after stripping whitespace (a single space), and that the rate
\* limiter lets through, is answered with status 400 and the detail 'Query
\* cannot be empty', and process_query is not called for it.
C28_BlankQueryIs400 ==
    (/\ http.status \notin {0, 429}
     /\ min_length <= http.length /\ http.length <= max_length
     /\ strip(http.query) = "")
        => /\ http.status = 400
           /\ http.detail = <<"Query cannot be empty">>
           /\ ~http.called

====
